---- MODULE Spec2Model ----
(***************************************************************************)
(* LynDJ: the Player state machine (lyndj/player.py), the per-track event  *)
(* scheduler MusicControl (lyndj/music_control.py), the playlist           *)
(* (lyndj/playlist.py) and the playback thread (lyndj/playback.py).        *)
(*                                                                         *)
(* Time is counted in units of 25 ms: the envelope sampler of MusicControl *)
(* starts at 0.025 s and steps by 0.05 s, the fade-out starts at 0.1 s and *)
(* steps by 0.05 s.  Volumes are in tenths (0.5 is 5).                    *)
(*                                                                         *)
(* The control side (GUI thread: slots called from QML and QTimer          *)
(* callbacks) runs one handler at a time.  The playback thread runs        *)
(* concurrently and shares audio_source, current_position and end_position *)
(* with it without any lock, so a handler is cut at each of its accesses   *)
(* to these three module globals: the part of a handler that is left to    *)
(* run is kept in cq, and no other handler starts while cq is not empty.   *)
(*                                                                         *)
(* Spec runs every handler and every iteration of play_loop as one step    *)
(* (the behaviours in which the two threads do not overlap); SpecRace      *)
(* interleaves the steps of a handler with the loads and stores of         *)
(* play_loop.                                                              *)
(***************************************************************************)
EXTENDS Integers, Sequences, FiniteSets, TLC

VARIABLES
  playlist,               \* Preferences "playlist/playlist": sequence of paths and ":pause:"
  current_track,          \* Player.current_track: Nil or the decoded Sound [path, gen];
                          \* gen tells objects apart: 1 for those made by the latest
                          \* play_next, more for older ones
  control_track,          \* Player.control_track: Nil or the MusicControl [path, gen]
  start_time,             \* Player.start_time, kept as time.time() - start_time; NoTime for None
  main_volume,            \* Player.main_volume, in tenths
  cut_start,              \* metadata field cut_start of every track (-1: not trimmed yet)
  cut_end,                \* metadata field cut_end of every track (-1: not trimmed yet)
  directory,              \* music files of directory/browse_path that AutoDJ can suggest
  events,                 \* control_track.events: sequence of timers
  volume_change_events,   \* control_track.volume_change_events: sequence of timers
  orphans,                \* running timers of MusicControl objects the Player no longer refers to
  emitted,                \* song_finished, song_changed and is_playing_changed as emitted by
                          \* the handler this state is the result of, in order
  raised,                 \* exception that ended that handler ("" if none)
  cq,                     \* rest of the control handler in progress: its steps at the shared globals
  audio_source,           \* playback.audio_source: Nil or a Sound [path, gen]
  current_position,       \* playback.current_position: [v, gen]; gen = track the value was set for
  end_position,           \* playback.end_position: [v, gen]
  lpc,                    \* position of play_loop in its iteration
  chunk,                  \* locals of play_loop: what the current chunk was sliced from
  stream_format,          \* locals current_sample_width/current_rate/current_channels of play_loop
  tasks,                  \* BackgroundTasks.tasks: queue of (task, description, allow_during_playback)
  num_done,               \* BackgroundTasks.num_done
  current_description,    \* BackgroundTasks.current_description
  wpc,                    \* position of BackgroundTasks.worker in its iteration
  wtask,                  \* locals task, description, allow_during_playback of worker
  executed,               \* the tasks that worker has called, in order
  metadata_lock,          \* metadata.metadata_lock: the thread that holds it, "" if free
  store_thread,           \* metadata.store_thread: None, or where the thread is in store_after
  database,               \* rows that store has written on its connection since it took the lock
  args,                   \* the object and the arguments of the function that is called
  result                  \* what that call returned: <<>> before it returns

ctlvars == <<playlist, current_track, control_track, start_time, main_volume, cut_start, cut_end,
             directory, events, volume_change_events, orphans, emitted, raised, cq>>
engvars == <<audio_source, current_position, end_position>>
loopvars == <<lpc, chunk, stream_format>>
bgvars == <<tasks, num_done, current_description, wpc, wtask, executed>>
metavars == <<metadata_lock, store_thread, database>>
fnvars == <<args, result>>
vars == <<ctlvars, engvars, loopvars, bgvars, metavars, fnvars>>

Nil == [path |-> "", gen |-> 0]
NoPos == [v |-> 0, gen |-> 0]
NoTime == -1
NoVolume == -1
Pause == ":pause:"
Tracks == {"a", "b"}
Entries == Tracks \cup {Pause}

----------------------------------------------------------------------------
(* Bounds of the model. *)
MaxElapsed == 3
MaxAge == 3

(* Literals of the program, in model units: the default volume 0.5, the first *)
(* fade step at 0.1 s and the first envelope sample at 0.025 s, both stepping *)
(* by 0.05 s.  The preferences player/silence, player/fadeout and             *)
(* player/buffer_size are settings of the user; here they are 25 ms, 125 ms   *)
(* and 50 ms, so that a fade-out has one ramp step before its terminal event. *)
DefaultVolume == 5
Silence == 1
Fadeout == 5
ChunkSize == 2
FadeFirst == 4
FadeStep == 2
EnvFirst == 1
EnvStep == 2

(* The music files: their length, what detect_silence finds, stream format,   *)
(* the stored volume waypoints and the stored trim points.                    *)
TotalDuration == [t \in Tracks |-> IF t = "a" THEN 6 ELSE 5]
DetectSilence == [t \in Tracks |-> IF t = "a" THEN <<1, 5>> ELSE <<1, 4>>]
Format == [t \in Tracks |-> "s16@44100"]
VolumeWaypoints == [t \in Tracks |->
  IF t = "a" THEN <<[t |-> 1, l |-> 5], [t |-> 5, l |-> 3]>> ELSE <<>>]
InitCutStart == [t \in Tracks |-> IF t = "a" THEN 1 ELSE -1]
InitCutEnd == [t \in Tracks |-> IF t = "a" THEN 5 ELSE -1]
CutEndInputs == {2}
CutStartInputs == {0, 4}
RecalculateInputs == {0, 1}

----------------------------------------------------------------------------
(* QTimer: single shot; left is the time until it fires, -1 when it is not running. *)
Timer(kind, interval, v, path, gen) ==
  [kind |-> kind, interval |-> interval, v |-> v, path |-> path, gen |-> gen, left |-> -1]
TimerStart(t) == [t EXCEPT !.left = t.interval]
TimerStop(t) == [t EXCEPT !.left = -1]
Running(t) == t.left >= 0
StartAll(ts) == [i \in 1..Len(ts) |-> TimerStart(ts[i])]
StopAll(ts) == [i \in 1..Len(ts) |-> TimerStop(ts[i])]
RunningOf(ts) == {ts[i] : i \in {j \in 1..Len(ts) : Running(ts[j])}}

(* A list of timers loses its last reference: those still running keep running. *)
Dropped(s) == RunningOf(s.events) \cup RunningOf(s.volume_change_events)

Observed == {"song_finished", "song_changed", "is_playing_changed"}
Emit(s, name, arg) ==
  IF name \in Observed
    THEN [s EXCEPT !.emitted =
            Append(@, [sig |-> name, arg |-> arg, playing |-> s.current_track # Nil])]
    ELSE s
Raise(s, exc) == [s EXCEPT !.raised = exc]


----------------------------------------------------------------------------
(* Player.set_volume *)
SetVolume(s, value) ==
  IF s.main_volume # value
    THEN Emit([s EXCEPT !.main_volume = value], "volume_changed", "")
    ELSE s

(* self.song_finished.emit(path); its slot Player.mark_song_played stamps the *)
(* track's last_played, which nothing in this machine reads back.             *)
SongFinishedEmit(s, path) == Emit(s, "song_finished", path)

----------------------------------------------------------------------------
(* MusicControl.recalculate_volume_waypoints: the sampling loop. pos counts *)
(* from 0 as in the code, so waypoint number pos of the code is wps[pos+1]. *)
RECURSIVE EnvelopeLoop(_, _, _, _, _, _, _, _, _)
EnvelopeLoop(wps, cur, duration, t, pos, volume, acc, path, gen) ==
  IF ~(t < duration) THEN acc
  ELSE
    LET pos1 == IF t >= wps[pos + 2].t THEN pos + 1 ELSE pos IN
    IF pos1 >= Len(wps) - 1 THEN acc
    ELSE IF pos1 < 0
      THEN EnvelopeLoop(wps, cur, duration, t + EnvStep, pos1, volume, acc, path, gen)
    ELSE
      LET time_start == wps[pos1 + 1].t
          level_start == wps[pos1 + 1].l
          time_end == wps[pos1 + 2].t
          level_end == wps[pos1 + 2].l
          new_volume == IF level_start = level_end THEN level_start
                        ELSE level_start +
                             ((t - time_start) * (level_end - level_start)) \div (time_end - time_start)
          acc1 == IF volume # NoVolume /\ new_volume # volume
                    THEN Append(acc, Timer("volume", t - cur, new_volume, path, gen))
                    ELSE acc
      IN EnvelopeLoop(wps, cur, duration, t + EnvStep, pos1, new_volume, acc1, path, gen)

RECURSIVE SkipWaypoints(_, _, _)
SkipWaypoints(wps, cur, pos) ==
  IF pos + 1 < Len(wps) /\ wps[pos + 2].t < cur
    THEN SkipWaypoints(wps, cur, pos + 1)
    ELSE pos

(* volume events that set the default level when there are no waypoints *)
VolumeEvents_default(wps, cur, duration, path, gen) ==
  IF Len(wps) > 0
    THEN LET pos == SkipWaypoints(wps, cur, -1) IN
         IF pos < Len(wps) - 1
           THEN EnvelopeLoop(wps, cur, duration, cur + EnvFirst, pos, NoVolume, <<>>, path, gen)
           ELSE <<>>
    ELSE <<Timer("volume", 0, DefaultVolume, path, gen)>>

(* lines 78-110: the volume events of a list of waypoints *)
VolumeEvents(wps, cur, duration, path, gen) ==
  IF Len(wps) > 0
    THEN LET pos == SkipWaypoints(wps, cur, -1) IN
         IF pos < Len(wps) - 1
           THEN EnvelopeLoop(wps, cur, duration, cur + EnvFirst, pos, NoVolume, <<>>, path, gen)
           ELSE <<>>
    ELSE <<>>

(* a recalculate that forgets the old volume events without stopping them *)
RecalculateVolumeWaypoints_nostop(s, cur) ==
  LET c == s.control_track
      fresh == VolumeEvents(VolumeWaypoints[c.path], cur,
                            s.cut_end[c.path] - s.cut_start[c.path], c.path, c.gen)
  IN [s EXCEPT
        !.orphans = @ \cup RunningOf(s.volume_change_events),
        !.volume_change_events = IF cur > 0 THEN StartAll(fresh) ELSE fresh]

(* MusicControl.recalculate_volume_waypoints(current_position) on the Player's control_track *)
RecalculateVolumeWaypoints(s, cur) ==
  LET c == s.control_track
      stopped == [s EXCEPT !.volume_change_events = StopAll(@)]
      fresh == VolumeEvents(VolumeWaypoints[c.path], cur,
                            s.cut_end[c.path] - s.cut_start[c.path], c.path, c.gen)
  IN [stopped EXCEPT
        !.orphans = @ \cup RunningOf(stopped.volume_change_events),
        !.volume_change_events = IF cur > 0 THEN StartAll(fresh) ELSE fresh]

(* a MusicControl whose end-of-track timer leaves out the silence *)
NewMusicControl_nosilence(s, path, gen) ==
  LET duration == s.cut_end[path] - s.cut_start[path]
      song_end_timer == Timer("song_ends", duration, 0, path, gen)
      s1 == [s EXCEPT !.orphans = @ \cup Dropped(s),
                      !.control_track = [path |-> path, gen |-> gen],
                      !.events = <<song_end_timer>>,
                      !.volume_change_events = <<>>]
  IN RecalculateVolumeWaypoints(s1, 0)

(* MusicControl.__init__(path, sound, player), stored in Player.control_track *)
NewMusicControl(s, path, gen) ==
  LET duration == s.cut_end[path] - s.cut_start[path]
      song_end_timer == Timer("song_ends", duration + Silence, 0, path, gen)
      s1 == [s EXCEPT !.orphans = @ \cup Dropped(s),
                      !.control_track = [path |-> path, gen |-> gen],
                      !.events = <<song_end_timer>>,
                      !.volume_change_events = <<>>]
  IN RecalculateVolumeWaypoints(s1, 0)

(* a play() that starts no timer *)
ControlPlay_none(s) == s

(* MusicControl.play *)
ControlPlay(s) ==
  [s EXCEPT !.events = StartAll(@), !.volume_change_events = StartAll(@)]

(* a stop() that cancels no timer *)
ControlStop_none(s) == s

(* MusicControl.stop *)
ControlStop(s) ==
  [s EXCEPT !.volume_change_events = StopAll(@), !.events = StopAll(@)]

(* MusicControl.fadeout: the ramp, from time on *)
RECURSIVE FadeRamp(_, _, _, _, _)
FadeRamp(time, duration, start_volume, path, gen) ==
  IF time < duration
    THEN <<Timer("fade", time, ((duration - time) * start_volume) \div duration, path, gen)>>
         \o FadeRamp(time + FadeStep, duration, start_volume, path, gen)
    ELSE <<>>

(* a fadeout that forgets the old events without stopping them *)
ControlFadeout_nostop(s, duration) ==
  LET c == s.control_track
      s2 == [s EXCEPT !.orphans = @ \cup Dropped(s)]
  IN [s2 EXCEPT
        !.events = StartAll(<<Timer("fadeout_done", duration, 0, c.path, c.gen)>>),
        !.volume_change_events = StartAll(FadeRamp(FadeFirst, duration, s.main_volume, c.path, c.gen))]

(* MusicControl.fadeout(duration) *)
ControlFadeout(s, duration) ==
  LET c == s.control_track
      s1 == ControlStop(s)
      s2 == [s1 EXCEPT !.orphans = @ \cup Dropped(s1)]
  IN [s2 EXCEPT
        !.events = StartAll(<<Timer("fadeout_done", duration, 0, c.path, c.gen)>>),
        !.volume_change_events = StartAll(FadeRamp(FadeFirst, duration, s.main_volume, c.path, c.gen))]

(* a set_song_ends that leaves out the silence between two songs *)
ControlSetSongEnds_nosilence(s, duration) ==
  LET c == s.control_track
      old == TimerStop(s.events[1])
      new == TimerStart(Timer("song_ends", duration, 0, c.path, c.gen))
  IN [s EXCEPT !.orphans = @ \cup RunningOf(<<old>>),
               !.events = [@ EXCEPT ![1] = new]]

(* a set_song_ends that does not stop the timer it replaces *)
ControlSetSongEnds_keep(s, duration) ==
  LET c == s.control_track
      new == TimerStart(Timer("song_ends", duration + Silence, 0, c.path, c.gen))
  IN [s EXCEPT !.orphans = @ \cup RunningOf(<<s.events[1]>>),
               !.events = [@ EXCEPT ![1] = new]]

(* MusicControl.set_song_ends(duration); song_end_timer_index is 0 *)
ControlSetSongEnds(s, duration) ==
  LET c == s.control_track
      old == TimerStop(s.events[1])
      new == TimerStart(Timer("song_ends", duration + Silence, 0, c.path, c.gen))
  IN [s EXCEPT !.orphans = @ \cup RunningOf(<<old>>),
               !.events = [@ EXCEPT ![1] = new]]

----------------------------------------------------------------------------
(* AutoDJ.suggested_track: the best rated file of the browse directory that is *)
(* not in the playlist, the first in sorted order among equals, "" if none.   *)
AutoDJEnabled == TRUE
SortedTracks == <<"a", "b">>
Rating == [t \in Tracks |-> 0]
SuggestedTrack(s) ==
  LET candidates == s.directory \ {s.playlist[i] : i \in 1..Len(s.playlist)}
      best(i) == /\ SortedTracks[i] \in candidates
                 /\ \A j \in 1..Len(SortedTracks) :
                       SortedTracks[j] \in candidates =>
                         \/ Rating[SortedTracks[j]] < Rating[SortedTracks[i]]
                         \/ Rating[SortedTracks[j]] = Rating[SortedTracks[i]] /\ i <= j
  IN IF candidates = {} THEN ""
     ELSE SortedTracks[CHOOSE i \in 1..Len(SortedTracks) : best(i)]

(* Playlist.update: rebuilds the list model of the GUI from the playlist. *)
PlaylistUpdate(s) ==
  LET suggested_track == IF AutoDJEnabled THEN SuggestedTrack(s) ELSE ""
  IN IF suggested_track # "" /\ Len(s.playlist) = 0
       THEN [s EXCEPT !.playlist = Append(@, suggested_track)]
       ELSE s

(* Preferences.changed_internally("playlist/playlist") and what listens to it *)
PlaylistChanged(s) == PlaylistUpdate(Emit(s, "valuesChanged", "playlist/playlist"))

(* Playlist.add(path) without the test of line 268 *)
PlaylistAdd_again(s, path) ==
  Emit(PlaylistChanged([s EXCEPT !.playlist = Append(@, path)]), "playlist_changed", "")

(* Playlist.add(path) *)
PlaylistAdd(s, path) ==
  IF \E i \in 1..Len(s.playlist) : s.playlist[i] = path
    THEN s
    ELSE Emit(PlaylistChanged([s EXCEPT !.playlist = Append(@, path)]), "playlist_changed", "")

(* Playlist.remove(index), index counted from 0 *)
PlaylistRemove(s, index) ==
  IF index < 0 \/ index >= Len(s.playlist)
    THEN s
    ELSE Emit(PlaylistChanged(
           [s EXCEPT !.playlist = SubSeq(@, 1, index) \o SubSeq(@, index + 2, Len(@))]),
           "playlist_changed", "")

(* list.insert(index, x) of Python, index >= 0 *)
ListInsert(l, index, x) ==
  LET k == IF index > Len(l) THEN Len(l) ELSE index
  IN SubSeq(l, 1, k) \o <<x>> \o SubSeq(l, k + 1, Len(l))

(* Playlist.reorder(path, new_index); beginMoveRows refuses a move onto itself *)
PlaylistReorder(s, path, new_index) ==
  IF ~(\E i \in 1..Len(s.playlist) : s.playlist[i] = path) THEN s
  ELSE
    LET old_index == (CHOOSE i \in 1..Len(s.playlist) : s.playlist[i] = path) - 1
        qt_new_index == IF old_index < new_index THEN new_index + 1 ELSE new_index
        success == ~(qt_new_index >= old_index /\ qt_new_index <= old_index + 1)
        popped == SubSeq(s.playlist, 1, old_index) \o SubSeq(s.playlist, old_index + 2, Len(s.playlist))
    IN IF ~success THEN s
       ELSE Emit(PlaylistChanged([s EXCEPT !.playlist = ListInsert(popped, new_index, path)]),
                 "playlist_changed", "")

----------------------------------------------------------------------------
(* Sound.decode and MusicControl() make new objects: they get gen 1, and every *)
(* object that exists already is one play_next older.                         *)
Older(g) == IF g = 0 THEN 0 ELSE IF g < MaxAge THEN g + 1 ELSE MaxAge
OlderRef(r) == [r EXCEPT !.gen = Older(@)]
OlderAll(ts) == [i \in 1..Len(ts) |-> OlderRef(ts[i])]
Aged(s) ==
  [s EXCEPT !.current_track = OlderRef(@),
            !.control_track = OlderRef(@),
            !.events = OlderAll(@),
            !.volume_change_events = OlderAll(@),
            !.orphans = {OlderRef(t) : t \in @},
            !.audio_source = OlderRef(@),
            !.current_position = OlderRef(@),
            !.end_position = OlderRef(@),
            !.chunk = [src |-> OlderRef(@.src), lo |-> OlderRef(@.lo), hi |-> OlderRef(@.hi),
                       p |-> OlderRef(@.p)]]

(* Player.currentPath *)
CurrentPath(s) == IF Len(s.playlist) = 0 THEN "" ELSE s.playlist[1]

(* Player.current_duration = current_cut_end - current_cut_start *)
CurrentDuration(s) ==
  IF s.current_track = Nil THEN 0
  ELSE s.cut_end[CurrentPath(s)] - s.cut_start[CurrentPath(s)]

(* (time.time() - Player.start_time) / self.current_duration > 0.5, duration not 0 *)
OverHalfway(elapsed, duration) ==
  IF duration > 0 THEN 2 * elapsed > duration ELSE 2 * elapsed < duration

(* Player.is_playing_set(False) *)
StopPlaying(s) ==
  IF s.current_track # Nil THEN
    IF s.control_track = Nil THEN Raise(s, "AttributeError")
    ELSE
      LET s1 == ControlFadeout(s, Fadeout) IN
      IF Len(s1.playlist) = 0 THEN Raise(s1, "IndexError")
      ELSE
        LET head == s1.playlist[1]
            s2 == IF head = Pause THEN s1
                  ELSE IF s1.start_time = NoTime THEN Raise(s1, "TypeError")
                  ELSE IF CurrentDuration(s1) = 0 THEN Raise(s1, "ZeroDivisionError")
                  ELSE IF OverHalfway(s1.start_time, CurrentDuration(s1))
                    THEN SongFinishedEmit(s1, head)
                    ELSE s1
        IN IF s2.raised # "" THEN s2
           ELSE Emit([s2 EXCEPT !.current_track = Nil, !.start_time = NoTime],
                     "is_playing_changed", "")
  ELSE Emit(s, "is_playing_changed", "")

(* One step of a handler at the shared globals of lyndj.playback: the signals *)
(* emitted before it, the access, whether control_track.play() follows, and  *)
(* the signals emitted after it.                                             *)
Step(op, v, pre, play, post) == [op |-> op, v |-> v, pre |-> pre, play |-> play, post |-> post]

(* Player.play_next *)
PlayNext(s) ==
  IF Len(s.playlist) = 0 THEN StopPlaying(s)
  ELSE
    LET s1 == IF s.control_track # Nil THEN ControlStop(s) ELSE s
        next_song == s.playlist[1]
        gen == 1
    IN
    IF next_song = Pause THEN
      LET s2 == StopPlaying(s1) IN
      IF s2.raised # "" THEN s2
      ELSE PlaylistChanged([s2 EXCEPT !.playlist = Tail(s.playlist)])
    ELSE
      LET sound == [path |-> next_song, gen |-> gen]
          s2 == [Aged(s1) EXCEPT !.current_track = sound]
          untrimmed == s2.cut_start[next_song] = -1 \/ s2.cut_end[next_song] = -1
          s3 == IF untrimmed
                  THEN [s2 EXCEPT !.cut_start[next_song] = DetectSilence[next_song][1],
                                  !.cut_end[next_song] = DetectSilence[next_song][2]]
                  ELSE s2
          s4 == NewMusicControl(s3, next_song, gen)
          s5 == SetVolume(s4, DefaultVolume)
      IN [s5 EXCEPT
            !.start_time = 0,
            !.cq = << Step("current_position", [v |-> s3.cut_start[next_song], gen |-> gen],
                           <<>>, FALSE, <<>>),
                      Step("end_position", [v |-> s3.cut_end[next_song], gen |-> gen],
                           <<"song_changed", "current_cut_start_changed">>, FALSE, <<>>),
                      Step("audio_source", sound,
                           <<"current_cut_end_changed">>, TRUE, <<>>) >>]

(* an is_playing_set that fills an empty playlist before it starts *)
IsPlayingSet_fill(s, new_is_playing) ==
  IF new_is_playing THEN
    IF s.current_track = Nil THEN
      LET s1 == PlayNext([s EXCEPT !.playlist = IF @ = <<>> THEN <<"a">> ELSE @]) IN
      IF s1.raised # "" THEN s1
      ELSE IF s1.cq = <<>> THEN Emit(s1, "is_playing_changed", "")
      ELSE [s1 EXCEPT !.cq[Len(s1.cq)].post = <<"is_playing_changed">>]
    ELSE Emit(s, "is_playing_changed", "")
  ELSE StopPlaying(s)

(* an is_playing_set that goes on to the entry after a ":pause:" *)
IsPlayingSet_advance(s, new_is_playing) ==
  IF new_is_playing THEN
    IF s.current_track = Nil THEN
      LET s0 == PlayNext(s)
          s1 == IF s0.raised = "" /\ s0.cq = <<>> /\ s0.playlist # <<>>
                  THEN PlayNext(s0) ELSE s0
      IN
      IF s1.raised # "" THEN s1
      ELSE IF s1.cq = <<>> THEN Emit(s1, "is_playing_changed", "")
      ELSE [s1 EXCEPT !.cq[Len(s1.cq)].post = <<"is_playing_changed">>]
    ELSE Emit(s, "is_playing_changed", "")
  ELSE StopPlaying(s)

(* Player.is_playing_set(new_is_playing) *)
IsPlayingSet(s, new_is_playing) ==
  IF new_is_playing THEN
    IF s.current_track = Nil THEN
      LET s1 == PlayNext(s) IN
      IF s1.raised # "" THEN s1
      ELSE IF s1.cq = <<>> THEN Emit(s1, "is_playing_changed", "")
      ELSE [s1 EXCEPT !.cq[Len(s1.cq)].post = <<"is_playing_changed">>]
    ELSE Emit(s, "is_playing_changed", "")
  ELSE StopPlaying(s)

(* a song_ends that leaves the playlist as it is *)
SongEnds_keep(s, path) == PlayNext(SongFinishedEmit(s, path))

(* MusicControl.song_ends of the MusicControl for path *)
SongEnds(s, path) ==
  PlayNext(PlaylistRemove(SongFinishedEmit(s, path), 0))

(* a fadeout_done that leaves the volume where the ramp left it *)
FadeoutDone_loud(s) ==
  [s EXCEPT !.current_track = Nil,
            !.control_track = Nil,
            !.orphans = @ \cup Dropped(s),
            !.events = <<>>,
            !.volume_change_events = <<>>,
            !.cq = << Step("audio_source", Nil, <<>>, FALSE, <<>>),
                      Step("current_position", NoPos, <<>>, FALSE, <<>>) >>]

(* fadeout_done, the terminal event of MusicControl.fadeout *)
FadeoutDone(s) ==
  LET s1 == SetVolume(s, 0) IN
  [s1 EXCEPT !.current_track = Nil,
             !.control_track = Nil,
             !.orphans = @ \cup Dropped(s1),
             !.events = <<>>,
             !.volume_change_events = <<>>,
             !.cq = << Step("audio_source", Nil, <<>>, FALSE, <<>>),
                       Step("current_position", NoPos, <<>>, FALSE, <<>>) >>]

(* a set_current_cut_end that leaves the end position of the engine alone *)
SetCurrentCutEnd_noend(s, new_cut_end) ==
  IF s.current_track = Nil THEN s
  ELSE IF CurrentPath(s) \notin Tracks THEN Raise(s, "FileNotFoundError")
  ELSE IF s.cut_end[CurrentPath(s)] = new_cut_end THEN s
  ELSE
    LET s1 == [s EXCEPT !.cut_end[CurrentPath(s)] = new_cut_end] IN
    IF new_cut_end < s.current_position.v THEN PlayNext(s1)
    ELSE [s1 EXCEPT !.cq = << Step("set_song_ends", new_cut_end, <<>>, FALSE,
                                   <<"current_cut_end_changed">>) >>]

(* Player.set_current_cut_start(new_cut_start) *)
SetCurrentCutStart(s, new_cut_start) ==
  IF s.current_track = Nil THEN s
  ELSE IF CurrentPath(s) \notin Tracks THEN Raise(s, "FileNotFoundError")
  ELSE Emit([s EXCEPT !.cut_start[CurrentPath(s)] = new_cut_start],
            "current_cut_start_changed", "")

(* Player.current_total_duration *)
CurrentTotalDuration(s) ==
  IF s.current_track = Nil THEN 0 ELSE TotalDuration[s.current_track.path]

(* a progress that counts within the trimmed range *)
CurrentProgress_trimmed(s) ==
  IF s.current_track = Nil THEN <<-1, 1>>
  ELSE <<s.current_position.v, CurrentDuration(s)>>

(* Player.current_progress, as numerator and denominator *)
CurrentProgress(s) ==
  IF s.current_track = Nil THEN <<-1, 1>>
  ELSE <<s.current_position.v, CurrentTotalDuration(s)>>

(* Player.set_current_cut_end(new_cut_end) *)
SetCurrentCutEnd(s, new_cut_end) ==
  IF s.current_track = Nil THEN s
  ELSE IF CurrentPath(s) \notin Tracks THEN Raise(s, "FileNotFoundError")
  ELSE IF s.cut_end[CurrentPath(s)] = new_cut_end THEN s
  ELSE
    LET s1 == [s EXCEPT !.cut_end[CurrentPath(s)] = new_cut_end] IN
    IF new_cut_end < s.current_position.v THEN PlayNext(s1)
    ELSE [s1 EXCEPT !.cq = << Step("end_position", [v |-> new_cut_end, gen |-> s.current_track.gen],
                                   <<>>, FALSE, <<>>),
                              Step("set_song_ends", new_cut_end, <<>>, FALSE,
                                   <<"current_cut_end_changed">>) >>]

----------------------------------------------------------------------------
(* The state the control side reads and writes as one record, and back. *)
St == [playlist |-> playlist, current_track |-> current_track, control_track |-> control_track,
       start_time |-> start_time, main_volume |-> main_volume, cut_start |-> cut_start,
       cut_end |-> cut_end, directory |-> directory, events |-> events,
       volume_change_events |-> volume_change_events, orphans |-> orphans,
       emitted |-> emitted, raised |-> raised, cq |-> cq,
       audio_source |-> audio_source, current_position |-> current_position,
       end_position |-> end_position, chunk |-> chunk]

Assign(s) ==
  /\ playlist' = s.playlist
  /\ current_track' = s.current_track
  /\ control_track' = s.control_track
  /\ start_time' = s.start_time
  /\ main_volume' = s.main_volume
  /\ cut_start' = s.cut_start
  /\ cut_end' = s.cut_end
  /\ directory' = s.directory
  /\ events' = s.events
  /\ volume_change_events' = s.volume_change_events
  /\ orphans' = s.orphans
  /\ emitted' = s.emitted
  /\ raised' = s.raised
  /\ cq' = s.cq
  /\ audio_source' = s.audio_source
  /\ current_position' = s.current_position
  /\ end_position' = s.end_position
  /\ chunk' = s.chunk

Becomes(s) ==
  /\ Assign(s)
  /\ UNCHANGED <<bgvars, metavars, fnvars>>

(* A handler starts: a slot called from the GUI, or a timer's callback. *)
Begin == [St EXCEPT !.emitted = <<>>, !.raised = ""]
Idle == cq = <<>>

(* The next step of the handler in progress at the shared globals. *)
RECURSIVE EmitAll(_, _)
EmitAll(s, sigs) ==
  IF sigs = <<>> THEN s ELSE EmitAll(Emit(s, Head(sigs), ""), Tail(sigs))

StepOf(s) ==
  LET st == Head(s.cq)
      s0 == EmitAll([s EXCEPT !.cq = Tail(@)], st.pre)
      s1 == CASE st.op = "audio_source" -> [s0 EXCEPT !.audio_source = st.v]
              [] st.op = "current_position" -> [s0 EXCEPT !.current_position = st.v]
              [] st.op = "end_position" -> [s0 EXCEPT !.end_position = st.v]
              [] OTHER -> ControlSetSongEnds(s0, st.v - s0.current_position.v)
      s2 == IF st.play THEN ControlPlay(s1) ELSE s1
  IN EmitAll(s2, st.post)

(* The handler runs to its end without the playback thread in between. *)
RECURSIVE Finish(_)
Finish(s) == IF s.cq = <<>> THEN s ELSE Finish(StepOf(s))

----------------------------------------------------------------------------
(* QTimers. The event loop hands out the timers that are due, earliest first. *)
AllRunning == RunningOf(events) \cup RunningOf(volume_change_events) \cup orphans
Due(t) == t.left = 0

(* Handles of the timers: a place in one of the two lists, or an orphan. *)
Handles ==
  {<<"events", i>> : i \in 1..Len(events)}
  \cup {<<"volume_change_events", i>> : i \in 1..Len(volume_change_events)}
  \cup {<<"orphan", t>> : t \in orphans}
TimerAt(h) ==
  CASE h[1] = "events" -> events[h[2]]
    [] h[1] = "volume_change_events" -> volume_change_events[h[2]]
    [] OTHER -> h[2]
(* single shot: the timer is no longer running when its callback is called *)
Shot(s, h) ==
  CASE h[1] = "events" -> [s EXCEPT !.events[h[2]] = TimerStop(@)]
    [] h[1] = "volume_change_events" -> [s EXCEPT !.volume_change_events[h[2]] = TimerStop(@)]
    [] OTHER -> [s EXCEPT !.orphans = @ \ {h[2]}]

Callback(s, t) ==
  CASE t.kind = "song_ends" -> SongEnds(s, t.path)
    [] t.kind = "fadeout_done" -> FadeoutDone(s)
    [] OTHER -> SetVolume(s, t.v)

Timeout(h) == Callback(Shot(Begin, h), TimerAt(h))

----------------------------------------------------------------------------
(* Init: nothing plays and the playback thread sleeps.  The playlist is what *)
(* Playlist.update makes of the empty list: with a browse directory AutoDJ   *)
(* has put its suggestion in, without one it is empty.                       *)
NoChunk == [src |-> Nil, lo |-> NoPos, hi |-> NoPos, p |-> NoPos]
NoTask == [task |-> 0, description |-> "", allow_during_playback |-> TRUE]

StoppedWith(trim_start, trim_end) ==
  /\ current_track = Nil
  /\ control_track = Nil
  /\ start_time = NoTime
  /\ main_volume = DefaultVolume
  /\ cut_start = trim_start
  /\ cut_end = trim_end
  /\ events = <<>>
  /\ volume_change_events = <<>>
  /\ orphans = {}
  /\ emitted = <<>>
  /\ raised = ""
  /\ cq = <<>>
  /\ audio_source = Nil
  /\ current_position = NoPos
  /\ end_position = NoPos
  /\ lpc = "idle"
  /\ chunk = NoChunk
  /\ stream_format = ""
  /\ tasks = <<>>
  /\ num_done = 0
  /\ current_description = ""
  /\ wpc = "sleep"
  /\ wtask = NoTask
  /\ executed = <<>>
  /\ metadata_lock = ""
  /\ store_thread = "None"
  /\ database = <<>>

NothingPlays == StoppedWith(InitCutStart, InitCutEnd)

(* no function is being called *)
NoCall == args = <<>> /\ result = <<>>

Init ==
  /\ directory \in {{}, Tracks}
  /\ playlist = PlaylistUpdate([directory |-> directory, playlist |-> <<>>]).playlist
  /\ NothingPlays
  /\ NoCall

----------------------------------------------------------------------------
(* Spec: handlers and loop iterations as single steps. *)
UserSetPlaying(b) ==
  /\ Becomes(Finish(IsPlayingSet(Begin, b)))
  /\ UNCHANGED <<lpc, stream_format>>

UserSetCurrentCutEnd(c) ==
  /\ current_track # Nil
  /\ Becomes(Finish(SetCurrentCutEnd(Begin, c)))
  /\ UNCHANGED <<lpc, stream_format>>

UserPlaylistAdd(path) ==
  /\ Becomes(PlaylistAdd(Begin, path))
  /\ UNCHANGED <<lpc, stream_format>>

UserPlaylistRemove(index) ==
  /\ Becomes(PlaylistRemove(Begin, index))
  /\ UNCHANGED <<lpc, stream_format>>

UserPlaylistReorder(path, new_index) ==
  /\ Becomes(PlaylistReorder(Begin, path, new_index))
  /\ UNCHANGED <<lpc, stream_format>>

TimerFires(h) ==
  /\ Due(TimerAt(h))
  /\ Becomes(Finish(Timeout(h)))
  /\ UNCHANGED <<lpc, stream_format>>

(* Outside a handler, a step leaves no signal and no exception behind. *)
Settled ==
  /\ emitted' = IF Idle THEN <<>> ELSE emitted
  /\ raised' = IF Idle THEN "" ELSE raised
  /\ UNCHANGED <<bgvars, metavars, fnvars>>

(* Time passes: no timer is late. The clock of the track in play is only ever  *)
(* compared with half a duration, so beyond MaxElapsed it is not counted on.   *)
Elapse(t) == IF Running(t) THEN [t EXCEPT !.left = @ - 1] ELSE t
Tick ==
  /\ Idle
  /\ \A t \in AllRunning : t.left > 0
  /\ start_time' = IF start_time = NoTime \/ start_time >= MaxElapsed THEN start_time
                   ELSE start_time + 1
  /\ events' = [i \in 1..Len(events) |-> Elapse(events[i])]
  /\ volume_change_events' = [i \in 1..Len(volume_change_events) |-> Elapse(volume_change_events[i])]
  /\ orphans' = {Elapse(t) : t \in orphans}
  /\ Settled
  /\ UNCHANGED <<playlist, current_track, control_track, main_volume, cut_start, cut_end, directory, cq,
                 engvars, lpc, chunk, stream_format>>

(* play_loop lines 103-126: one iteration *)
LoopIteration ==
  /\ lpc = "idle"
  /\ audio_source # Nil
  /\ stream_format' = Format[audio_source.path]
  /\ IF current_position.v >= end_position.v
       THEN /\ current_position' = NoPos
            /\ audio_source' = Nil
       ELSE /\ current_position' = [current_position EXCEPT !.v = @ + ChunkSize]
            /\ UNCHANGED audio_source
  /\ Settled
  /\ UNCHANGED <<playlist, current_track, control_track, start_time, main_volume, cut_start,
                 cut_end, directory, events, volume_change_events, orphans, cq, end_position,
                 chunk, lpc>>

Next ==
  \/ \E b \in BOOLEAN : UserSetPlaying(b)
  \/ \E c \in CutEndInputs : UserSetCurrentCutEnd(c)
  \/ \E path \in Entries : UserPlaylistAdd(path)
  \/ \E index \in 0..1 : UserPlaylistRemove(index)
  \/ \E path \in Entries, new_index \in 0..2 : UserPlaylistReorder(path, new_index)
  \/ \E h \in Handles : TimerFires(h)
  \/ Tick
  \/ LoopIteration

Spec == Init /\ [][Next]_vars

----------------------------------------------------------------------------
(* SpecRace: the playback thread runs beside the GUI thread. A handler runs  *)
(* up to its next access to a global of lyndj.playback, and play_loop runs   *)
(* one load or store of these globals at a time.  The playlist is the one    *)
(* the session starts with.                                                  *)
InitRace == directory = {} /\ playlist = <<"a", "b">> /\ NothingPlays /\ NoCall

RaceSetPlaying(b) ==
  /\ Idle
  /\ Becomes(IsPlayingSet(Begin, b))
  /\ UNCHANGED <<lpc, stream_format>>

RaceSetCurrentCutEnd(c) ==
  /\ Idle
  /\ current_track # Nil
  /\ Becomes(SetCurrentCutEnd(Begin, c))
  /\ UNCHANGED <<lpc, stream_format>>

RaceTimerFires(h) ==
  /\ Idle
  /\ Due(TimerAt(h))
  /\ Becomes(Timeout(h))
  /\ UNCHANGED <<lpc, stream_format>>

ControlStep ==
  /\ ~Idle
  /\ Becomes(StepOf(St))
  /\ UNCHANGED <<lpc, stream_format>>

LoopKeeps == UNCHANGED <<playlist, current_track, control_track, start_time, main_volume,
                         cut_start, cut_end, directory, events, volume_change_events, orphans,
                         cq>>

(* line 103: if audio_source is None: sleep and look again *)
LoopCheck ==
  /\ lpc = "idle"
  /\ audio_source # Nil
  /\ lpc' = "source"
  /\ Settled /\ LoopKeeps
  /\ UNCHANGED <<engvars, chunk, stream_format>>

(* line 107: audio_source[...]; None is not subscriptable, and play_loop has *)
(* no except clause: the TypeError ends the thread                           *)
LoopLoadSource ==
  /\ lpc = "source"
  /\ IF audio_source = Nil
       THEN lpc' = "dead" /\ chunk' = NoChunk
       ELSE lpc' = "lo" /\ chunk' = [chunk EXCEPT !.src = audio_source]
  /\ Settled /\ LoopKeeps
  /\ UNCHANGED <<engvars, stream_format>>

(* line 107: the lower bound of the slice, current_position *)
LoopLoadStart ==
  /\ lpc = "lo"
  /\ chunk' = [chunk EXCEPT !.lo = current_position]
  /\ lpc' = "hi"
  /\ Settled /\ LoopKeeps
  /\ UNCHANGED <<engvars, stream_format>>

(* line 107: the upper bound, current_position + chunk_size, and the slice; *)
(* lines 108-117: the stream is opened again for a chunk of another format, *)
(* and audio_server.open may raise                                          *)
LoopSlice ==
  /\ lpc = "hi"
  /\ chunk' = [chunk EXCEPT !.hi = [current_position EXCEPT !.v = @ + ChunkSize]]
  /\ \/ /\ stream_format' = Format[chunk.src.path]
        /\ lpc' = "cmp"
     \/ /\ Format[chunk.src.path] # stream_format
        /\ lpc' = "dead"
        /\ UNCHANGED stream_format
  /\ Settled /\ LoopKeeps
  /\ UNCHANGED engvars

(* line 118: current_position >= end_position, the left side *)
LoopLoadPosition ==
  /\ lpc = "cmp"
  /\ chunk' = [chunk EXCEPT !.p = current_position]
  /\ lpc' = "end"
  /\ Settled /\ LoopKeeps
  /\ UNCHANGED <<engvars, stream_format>>

(* a LoopCompare that lets the cursor pass the end position *)
LoopCompare_past ==
  /\ lpc = "end"
  /\ lpc' = IF chunk.p.v > end_position.v THEN "reset_pos" ELSE "adv_load"
  /\ Settled /\ LoopKeeps
  /\ UNCHANGED <<engvars, chunk, stream_format>>

(* line 118: the right side and the branch; line 125: stream.write *)
LoopCompare ==
  /\ lpc = "end"
  /\ lpc' = IF chunk.p.v >= end_position.v THEN "reset_pos" ELSE "adv_load"
  /\ Settled /\ LoopKeeps
  /\ UNCHANGED <<engvars, chunk, stream_format>>

(* line 119: current_position = 0 *)
LoopResetPosition ==
  /\ lpc = "reset_pos"
  /\ current_position' = NoPos
  /\ lpc' = "reset_src"
  /\ Settled /\ LoopKeeps
  /\ UNCHANGED <<audio_source, end_position, chunk, stream_format>>

(* lines 120-121: audio_source = None; continue *)
LoopResetSource ==
  /\ lpc = "reset_src"
  /\ audio_source' = Nil
  /\ lpc' = "idle"
  /\ chunk' = NoChunk
  /\ Settled /\ LoopKeeps
  /\ UNCHANGED <<current_position, end_position, stream_format>>

(* line 126: current_position += chunk_size, the load *)
LoopLoadAdvance ==
  /\ lpc = "adv_load"
  /\ chunk' = [chunk EXCEPT !.p = current_position]
  /\ lpc' = "adv_store"
  /\ Settled /\ LoopKeeps
  /\ UNCHANGED <<engvars, stream_format>>

(* line 126: the store *)
LoopStoreAdvance ==
  /\ lpc = "adv_store"
  /\ current_position' = [chunk.p EXCEPT !.v = @ + ChunkSize]
  /\ lpc' = "idle"
  /\ chunk' = NoChunk
  /\ Settled /\ LoopKeeps
  /\ UNCHANGED <<audio_source, end_position, stream_format>>

NextRace ==
  \/ \E b \in BOOLEAN : RaceSetPlaying(b)
  \/ \E c \in CutEndInputs : RaceSetCurrentCutEnd(c)
  \/ \E h \in Handles : RaceTimerFires(h)
  \/ ControlStep
  \/ Tick
  \/ LoopCheck
  \/ LoopLoadSource
  \/ LoopLoadStart
  \/ LoopSlice
  \/ LoopLoadPosition
  \/ LoopCompare
  \/ LoopResetPosition
  \/ LoopResetSource
  \/ LoopLoadAdvance
  \/ LoopStoreAdvance

SpecRace == InitRace /\ [][NextRace]_vars

----------------------------------------------------------------------------
(* SpecEdit: the session without edits of the playlist, with the live edits  *)
(* of the track that plays: both trim points, and a recalculation of the     *)
(* volume events of its scheduler.                                           *)
UserSetCurrentCutStart(c) ==
  /\ current_track # Nil
  /\ Becomes(SetCurrentCutStart(Begin, c))
  /\ UNCHANGED <<lpc, stream_format>>

UserRecalculate(p) ==
  /\ control_track # Nil
  /\ Becomes(RecalculateVolumeWaypoints(Begin, p))
  /\ UNCHANGED <<lpc, stream_format>>

NextEdit ==
  \/ \E b \in BOOLEAN : UserSetPlaying(b)
  \/ \E c \in CutEndInputs : UserSetCurrentCutEnd(c)
  \/ \E c \in CutStartInputs : UserSetCurrentCutStart(c)
  \/ \E p \in RecalculateInputs : UserRecalculate(p)
  \/ \E h \in Handles : TimerFires(h)
  \/ Tick
  \/ LoopIteration

SpecEdit == InitRace /\ [][NextEdit]_vars

----------------------------------------------------------------------------
(* SpecLoop: play_loop on its own.  A track is started from Stopped, with    *)
(* trim points as the metadata may hold them, and from then on only the      *)
(* playback thread runs, one load or store of the shared globals at a time;  *)
(* the thread is scheduled again and again, and the audio device opens.      *)
TrimStartInputs == 0..2
TrimEndInputs == 3..6

InitLoop ==
  /\ directory = {}
  /\ playlist \in {<<"a", "b">>, <<"b">>}
  /\ \E trim_start \in [Tracks -> TrimStartInputs], trim_end \in [Tracks -> TrimEndInputs] :
       StoppedWith(trim_start, trim_end)
  /\ NoCall

(* set_playing(true), run to its end before the thread looks again *)
LoopPlay ==
  /\ current_track = Nil
  /\ lpc = "idle"
  /\ UserSetPlaying(TRUE)

(* lines 107-117 with a device that opens *)
LoopSliceOpened == LoopSlice /\ lpc' = "cmp"

LoopThread ==
  \/ LoopCheck
  \/ LoopLoadSource
  \/ LoopLoadStart
  \/ LoopSliceOpened
  \/ LoopLoadPosition
  \/ LoopCompare
  \/ LoopResetPosition
  \/ LoopResetSource
  \/ LoopLoadAdvance
  \/ LoopStoreAdvance

NextLoop ==
  \/ LoopPlay
  \/ LoopCheck
  \/ LoopLoadSource
  \/ LoopLoadStart
  \/ LoopSliceOpened
  \/ LoopLoadPosition
  \/ LoopCompare
  \/ LoopResetPosition
  \/ LoopResetSource
  \/ LoopLoadAdvance
  \/ LoopStoreAdvance

SpecLoop == InitLoop /\ [][NextLoop]_vars /\ WF_vars(LoopThread)

----------------------------------------------------------------------------
(* SpecFair: the session without edits of the playlist, with the scheduling  *)
(* of the Qt event loop: time passes, a timer that is due is called, and a   *)
(* handler that was entered runs to its end.  The playback thread takes its  *)
(* iterations between the handlers.                                          *)
FairLoopIteration == Idle /\ LoopIteration

NextFair ==
  \/ \E b \in BOOLEAN : RaceSetPlaying(b)
  \/ \E h \in Handles : RaceTimerFires(h)
  \/ ControlStep
  \/ Tick
  \/ FairLoopIteration

SpecFair ==
  /\ InitRace
  /\ [][NextFair]_vars
  /\ WF_vars(Tick)
  /\ WF_vars(\E h \in Handles : RaceTimerFires(h))
  /\ WF_vars(ControlStep)

----------------------------------------------------------------------------
(* SpecTasks: the thread of BackgroundTasks.worker beside the GUI thread.    *)
(* The handlers of the Player are single steps; the worker runs from one     *)
(* access to the queue or to the Player to the next.  MaxTasks tasks are     *)
(* added in a session, numbered in the order of their addition.              *)
MaxTasks == 2

TaskInputs ==
  {[description |-> "Spectrograph and silence detection", allow_during_playback |-> FALSE],
   [description |-> "task", allow_during_playback |-> TRUE]}

(* Player.is_playing *)
IsPlaying(s) == s.current_track # Nil

(* the tasks of the session so far: queued, taken by the worker, or called *)
TasksAdded ==
  {tasks[i].task : i \in 1..Len(tasks)} \cup {executed[i] : i \in 1..Len(executed)}
    \cup ({wtask.task} \ {NoTask.task})

ThreadKeeps ==
  /\ emitted' = IF Idle THEN <<>> ELSE emitted
  /\ raised' = IF Idle THEN "" ELSE raised
  /\ LoopKeeps
  /\ UNCHANGED <<engvars, loopvars, metavars, fnvars>>

(* BackgroundTasks.add(task, description, allow_during_playback) *)
UserAddTask(description, allow_during_playback) ==
  /\ Idle
  /\ Cardinality(TasksAdded) < MaxTasks
  /\ tasks' = Append(tasks, [task |-> Cardinality(TasksAdded) + 1,
                              description |-> description,
                              allow_during_playback |-> allow_during_playback])
  /\ ThreadKeeps
  /\ UNCHANGED <<num_done, current_description, wpc, wtask, executed>>

(* worker lines 71-75: sleep, then take the head of the queue if there is one *)
WorkerGet ==
  /\ wpc = "sleep"
  /\ tasks # <<>>
  /\ wtask' = Head(tasks)
  /\ tasks' = Tail(tasks)
  /\ wpc' = "test"
  /\ ThreadKeeps
  /\ UNCHANGED <<num_done, current_description, executed>>

(* worker line 76: the test of allow_during_playback and of the property   *)
(* of the Player that tells whether it plays, Player.is_playing             *)
WorkerTest ==
  /\ wpc = "test"
  /\ wpc' = IF ~wtask.allow_during_playback /\ IsPlaying(St) THEN "put" ELSE "run"
  /\ ThreadKeeps
  /\ UNCHANGED <<tasks, num_done, current_description, wtask, executed>>

(* worker lines 77-78: the task goes back to the end of the queue *)
WorkerPut ==
  /\ wpc = "put"
  /\ tasks' = Append(tasks, wtask)
  /\ wpc' = "sleep"
  /\ ThreadKeeps
  /\ UNCHANGED <<num_done, current_description, wtask, executed>>

(* worker lines 79-82: the description is shown and the task is called.  The *)
(* call returns, or it raises: no handler is around line 82, the exception  *)
(* leaves worker and the thread has ended.                                  *)
WorkerRun ==
  /\ wpc = "run"
  /\ current_description' = wtask.description
  /\ executed' = Append(executed, wtask.task)
  /\ wpc' \in {"done", "ended"}
  /\ ThreadKeeps
  /\ UNCHANGED <<tasks, num_done, wtask>>

(* worker lines 83-87: the task has returned *)
WorkerDone ==
  /\ wpc = "done"
  /\ num_done' = IF tasks = <<>> THEN 0 ELSE num_done + 1
  /\ current_description' = IF tasks = <<>> THEN "" ELSE current_description
  /\ wpc' = "sleep"
  /\ ThreadKeeps
  /\ UNCHANGED <<tasks, wtask, executed>>

NextTasks ==
  \/ \E b \in BOOLEAN : UserSetPlaying(b)
  \/ \E h \in Handles : TimerFires(h)
  \/ Tick
  \/ LoopIteration
  \/ \E i \in TaskInputs : UserAddTask(i.description, i.allow_during_playback)
  \/ WorkerGet
  \/ WorkerTest
  \/ WorkerPut
  \/ WorkerRun
  \/ WorkerDone

SpecTasks == InitRace /\ [][NextTasks]_vars

(* worker is the target of a daemon thread started in __init__ (lines 47,   *)
(* 51) and loops for ever (line 70): the thread is never left without a     *)
(* step while it has one to take, and a task that is called comes back.     *)
Worker ==
  \/ WorkerGet
  \/ WorkerTest
  \/ WorkerPut
  \/ WorkerRun
  \/ WorkerDone

SpecTasksFair == SpecTasks /\ WF_vars(Worker)

----------------------------------------------------------------------------
(* SpecMeta: the thread of metadata.store_after beside the GUI thread.  The  *)
(* fields cut_start and cut_end of the entries are the part of the metadata  *)
(* dictionary that is followed; a handler that changed one of them has       *)
(* called metadata.change, which ends with trigger_store().                  *)
(* trigger_store, lines 105-113 *)
TriggerStore ==
  /\ store_thread' = IF store_thread = "None" /\ (cut_start' # cut_start \/ cut_end' # cut_end)
                       THEN "sleep" ELSE store_thread
  /\ UNCHANGED <<metadata_lock, database, lpc, stream_format, bgvars, fnvars>>

MetaSetPlaying(b) ==
  /\ Assign(Finish(IsPlayingSet(Begin, b)))
  /\ TriggerStore

MetaSetCurrentCutStart(c) ==
  /\ current_track # Nil
  /\ Assign(SetCurrentCutStart(Begin, c))
  /\ TriggerStore

MetaTimerFires(h) ==
  /\ Due(TimerAt(h))
  /\ Assign(Finish(Timeout(h)))
  /\ TriggerStore

StoreKeeps ==
  /\ emitted' = IF Idle THEN <<>> ELSE emitted
  /\ raised' = IF Idle THEN "" ELSE raised
  /\ LoopKeeps
  /\ UNCHANGED <<engvars, loopvars, bgvars, fnvars>>

(* store_after line 87 and store lines 119-148: after the sleep, take the lock *)
StoreLock ==
  /\ store_thread = "sleep"
  /\ metadata_lock = ""
  /\ metadata_lock' = "store"
  /\ store_thread' = "items"
  /\ database' = <<>>
  /\ StoreKeeps

(* store lines 149-151: the next entry of the dictionary is written *)
StoreItem ==
  /\ store_thread = "items"
  /\ Len(database) < Len(SortedTracks)
  /\ LET path == SortedTracks[Len(database) + 1] IN
       database' = Append(database, [path |-> path, cut_start |-> cut_start[path],
                                     cut_end |-> cut_end[path]])
  /\ UNCHANGED <<metadata_lock, store_thread>>
  /\ StoreKeeps

(* store line 152 and store_after lines 89-90: the lock is released, the     *)
(* rows are committed, the connection is dropped and the thread ends         *)
StoreCommit ==
  /\ store_thread = "items"
  /\ Len(database) = Len(SortedTracks)
  /\ metadata_lock' = ""
  /\ store_thread' = "None"
  /\ database' = <<>>
  /\ StoreKeeps

NextMeta ==
  \/ \E b \in BOOLEAN : MetaSetPlaying(b)
  \/ \E c \in CutStartInputs : MetaSetCurrentCutStart(c)
  \/ \E h \in Handles : MetaTimerFires(h)
  \/ Tick
  \/ StoreLock
  \/ StoreItem
  \/ StoreCommit

SpecMeta == InitRace /\ [][NextMeta]_vars

----------------------------------------------------------------------------
(* SpecAutoDJ: AutoDJ.suggested_track and Playlist.update as functions of    *)
(* the state they read.  args is that state: the listing of the browse       *)
(* directory, the playlist, the paths of History.track_data, the metadata    *)
(* dictionary, the bpm cadence, the energy slider and the clock (in weeks).  *)
(* The other preferences have the values application.py gives them: the      *)
(* three variations 10, bpm_precision 0.2, energy_slider_power 0.5 and       *)
(* last_played_influence 1.0.  Weights 1/(i+1) are kept times WeightScale,   *)
(* penalties times WeightScale * MeanScale, ratings times 10 more.           *)
Files == {"a", "b", "c"}
SortedFiles == <<"a", "b", "c">>
Extension == [p \in Files \cup {"cover.jpg"} |-> IF p \in Files THEN ".mp3" ELSE ".jpg"]
WeightScale == 60
MeanScale == 6
AgeVariation == 10
StyleVariation == 10
EnergyVariation == 10
MediumBpm == 150
EnergyToNumeric == [low |-> 0, medium |-> 50, high |-> 100]

(* metadata.is_music_file *)
IsMusicFile(path) == Extension[path] \in {".mp3", ".flac", ".opus", ".ogg", ".wav"}

SeqSet(q) == {q[i] : i \in 1..Len(q)}
ReverseSeq(q) == [i \in 1..Len(q) |-> q[Len(q) + 1 - i]]
AbsDiff(x, y) == IF x >= y THEN x - y ELSE y - x

(* metadata.add_file for a path without entry: what the tags of the file say *)
FileBpm == [p \in Files |-> IF p = "b" THEN 200 ELSE 100]
FileEntry(path) ==
  [autodj_exclude |-> 0, age |-> "", style |-> "", energy |-> "", bpm |-> FileBpm[path],
   last_played |-> -1]

(* metadata.get(path, field)[field], and the dictionary after it *)
MetadataGet(m, path) == IF path \in DOMAIN m THEN m[path] ELSE FileEntry(path)
MetadataAfterGet(m, paths) ==
  [p \in DOMAIN m \cup paths |-> IF p \in DOMAIN m THEN m[p] ELSE FileEntry(p)]

(* AutoDJ.get_history *)
GetHistory(a) == SelectSeq(ReverseSeq(a.playlist) \o a.track_data, LAMBDA p : p # Pause)

(* candidates from which the playlist is not taken away *)
Candidates_queued(a) ==
  {p \in a.listdir : /\ IsMusicFile(p)
                     /\ p \in DOMAIN a.metadata
                     /\ a.metadata[p].autodj_exclude = 0}

(* lines 55-60: the candidates *)
Candidates(a) ==
  {p \in a.listdir : /\ IsMusicFile(p)
                     /\ p \in DOMAIN a.metadata
                     /\ a.metadata[p].autodj_exclude = 0} \ SeqSet(a.playlist)

(* lines 66-83: a histogram of one field over the history *)
RECURSIVE WeightSum(_, _, _)
WeightSum(values, v, i) ==
  IF i > Len(values) THEN 0
  ELSE (IF values[i] = v THEN WeightScale \div i ELSE 0) + WeightSum(values, v, i + 1)

RECURSIVE SumOver(_, _)
SumOver(f, keys) ==
  IF keys = {} THEN 0
  ELSE LET k == CHOOSE x \in keys : TRUE IN f[k] + SumOver(f, keys \ {k})

Histogram(a, field) ==
  LET history == GetHistory(a)
      values == [i \in 1..Len(history) |-> MetadataGet(a.metadata, history[i])[field]]
      seen == SeqSet(values) \ {""}
      weighted == [v \in seen |-> MeanScale * WeightSum(values, v, 1)]
      mean == IF seen = {} THEN 0 ELSE SumOver(weighted, seen) \div Cardinality(seen)
  IN [v \in seen \cup {""} |-> IF v = "" THEN mean ELSE weighted[v]]

(* lines 124-126: a defaultdict gives 0 for a value that is not in it *)
Penalty(histogram, v) == IF v \in DOMAIN histogram THEN histogram[v] ELSE 0

(* lines 86-89 *)
BpmToMatch(a) ==
  LET history == GetHistory(a)
      n == IF Len(history) < Len(a.bpm_cadence) THEN Len(history) ELSE Len(a.bpm_cadence)
      history_to_match == ReverseSeq(SubSeq(history, 1, n))
  IN [i \in 1..n |-> LET bpm == MetadataGet(a.metadata, history_to_match[i]).bpm
                     IN IF bpm >= 0 THEN bpm ELSE MediumBpm]

(* lines 93-96: the difference of one rotation *)
RECURSIVE BpmDifference(_, _, _, _)
BpmDifference(cadence, rotate_n, bpm_to_match, i) ==
  IF i > Len(bpm_to_match) THEN 0
  ELSE AbsDiff(cadence[((rotate_n + i - 1) % Len(cadence)) + 1], bpm_to_match[i])
         + BpmDifference(cadence, rotate_n, bpm_to_match, i + 1)

(* a loop over the rotations in which the last of equal rotations wins *)
RECURSIVE BestRotate_last(_, _, _, _, _)
BestRotate_last(cadence, bpm_to_match, rotate_n, best_rotate, best_rotate_difference) ==
  IF rotate_n >= Len(cadence) THEN best_rotate
  ELSE LET bpm_difference == BpmDifference(cadence, rotate_n, bpm_to_match, 1)
       IN IF best_rotate = -1 \/ bpm_difference <= best_rotate_difference
            THEN BestRotate_last(cadence, bpm_to_match, rotate_n + 1, rotate_n, bpm_difference)
            ELSE BestRotate_last(cadence, bpm_to_match, rotate_n + 1, best_rotate,
                                 best_rotate_difference)

(* lines 90-99: the loop over the rotations; best_rotate_difference starts at inf *)
RECURSIVE BestRotate(_, _, _, _, _)
BestRotate(cadence, bpm_to_match, rotate_n, best_rotate, best_rotate_difference) ==
  IF rotate_n >= Len(cadence) THEN best_rotate
  ELSE LET bpm_difference == BpmDifference(cadence, rotate_n, bpm_to_match, 1)
       IN IF best_rotate = -1 \/ bpm_difference < best_rotate_difference
            THEN BestRotate(cadence, bpm_to_match, rotate_n + 1, rotate_n, bpm_difference)
            ELSE BestRotate(cadence, bpm_to_match, rotate_n + 1, best_rotate, best_rotate_difference)

(* line 100 *)
BaseBpmTarget(a) ==
  LET bpm_to_match == BpmToMatch(a)
      best_rotate == BestRotate(a.bpm_cadence, bpm_to_match, 0, -1, 0)
  IN a.bpm_cadence[((Len(bpm_to_match) + best_rotate) % Len(a.bpm_cadence)) + 1]

(* the locals of suggested_track after line 100 *)
CadenceOf(a) ==
  [best_rotate |-> BestRotate(a.bpm_cadence, BpmToMatch(a), 0, -1, 0),
   bpm_target |-> BaseBpmTarget(a)]

(* line 102, energy_slider_power 0.5 *)
BpmTarget(a) == BaseBpmTarget(a) + (a.autodj_energy - 50) \div 2

(* lines 113-140: the rating of one candidate, times 3600 *)
RatingOf(a, path) ==
  LET entry == a.metadata[path]
      numeric_energy == IF entry.energy \in DOMAIN EnergyToNumeric
                          THEN EnergyToNumeric[entry.energy] ELSE 50
      long_ago == a.now - entry.last_played
  IN - 10 * AgeVariation * Penalty(Histogram(a, "age"), entry.age)
     - 10 * StyleVariation * Penalty(Histogram(a, "style"), entry.style)
     - 10 * EnergyVariation * Penalty(Histogram(a, "energy"), entry.energy)
     - 360 * AbsDiff(numeric_energy, a.autodj_energy)
     + 3600 * long_ago
     - 720 * AbsDiff(entry.bpm, BpmTarget(a))

(* a loop over the candidates in which the last of equal ratings wins *)
RECURSIVE BestTrack_last(_, _, _, _)
BestTrack_last(a, i, best_track, best_rating) ==
  IF i > Len(SortedFiles) THEN best_track
  ELSE LET path == SortedFiles[i] IN
       IF path \notin Candidates(a) THEN BestTrack_last(a, i + 1, best_track, best_rating)
       ELSE LET rating == RatingOf(a, path)
            IN IF best_track = "" \/ rating >= best_rating
                 THEN BestTrack_last(a, i + 1, path, rating)
                 ELSE BestTrack_last(a, i + 1, best_track, best_rating)

(* lines 110-144: the loop over sorted(candidates); best_rating starts at -inf *)
RECURSIVE BestTrack(_, _, _, _)
BestTrack(a, i, best_track, best_rating) ==
  IF i > Len(SortedFiles) THEN best_track
  ELSE LET path == SortedFiles[i] IN
       IF path \notin Candidates(a) THEN BestTrack(a, i + 1, best_track, best_rating)
       ELSE LET rating == RatingOf(a, path)
            IN IF best_track = "" \/ rating > best_rating
                 THEN BestTrack(a, i + 1, path, rating)
                 ELSE BestTrack(a, i + 1, best_track, best_rating)

(* a suggested_track that excludes the track it returns from later suggestions *)
SuggestedTrackOf_marked(a) ==
  IF ~a.has_browse_path \/ Candidates(a) = {} THEN [track |-> "", metadata |-> a.metadata]
  ELSE LET best_track == BestTrack(a, 1, "", 0)
       IN [track |-> best_track,
           metadata |-> [MetadataAfterGet(a.metadata, SeqSet(GetHistory(a)))
                           EXCEPT ![best_track].autodj_exclude = 1]]

(* AutoDJ.suggested_track: what it returns and the metadata dictionary after *)
SuggestedTrackOf(a) ==
  IF ~a.has_browse_path THEN [track |-> "", metadata |-> a.metadata]
  ELSE IF Candidates(a) = {} THEN [track |-> "", metadata |-> a.metadata]
  ELSE [track |-> BestTrack(a, 1, "", 0),
        metadata |-> MetadataAfterGet(a.metadata, SeqSet(GetHistory(a)))]

(* an update whose second suggestion does not see the track it has just added *)
UpdateOf_stale(a) ==
  LET first == SuggestedTrackOf(a)
      fill == first.track # "" /\ Len(a.playlist) = 0
      filled == IF fill THEN Append(a.playlist, first.track) ELSE a.playlist
  IN [playlist |-> filled,
      suggested_track |-> first.track,
      paths |-> IF first.track # "" THEN Append(filled, first.track) ELSE filled]

(* Playlist.update lines 88-101: the paths of the list model and the playlist *)
UpdateOf(a) ==
  LET first == IF AutoDJEnabled THEN SuggestedTrackOf(a) ELSE [track |-> "", metadata |-> a.metadata]
      fill == first.track # "" /\ Len(a.playlist) = 0
      b == [a EXCEPT !.playlist = IF fill THEN Append(@, first.track) ELSE @,
                     !.metadata = first.metadata]
      second == IF fill THEN SuggestedTrackOf(b) ELSE first
  IN [playlist |-> b.playlist,
      suggested_track |-> second.track,
      paths |-> IF second.track # "" THEN Append(b.playlist, second.track) ELSE b.playlist]

(* The states in which the calls are made. *)
BrowseInputs ==
  {[has_browse_path |-> TRUE, listdir |-> {"a", "b", "c", "cover.jpg"}],
   [has_browse_path |-> TRUE, listdir |-> {"a", "b", "cover.jpg"}],
   [has_browse_path |-> TRUE, listdir |-> {}],
   [has_browse_path |-> FALSE, listdir |-> {}]}
PlaylistInputs == {<<>>, <<"a">>, <<"b", "a">>, <<"a", "b", "c">>, <<Pause, "c">>}
TrackDataInputs == {<<>>, <<"c">>, <<"b", "c">>}
KnownInputs == {Files, Files \ {"b"}}
ExcludeInputs == {{}, {"a"}, {"c"}}
BpmInputs ==
  {[a |-> 100, b |-> 200, c |-> 195], [a |-> -1, b |-> 200, c |-> 100],
   [a |-> 100, b |-> 100, c |-> 100], [a |-> 200, b |-> -1, c |-> -1]}
AgeInputs ==
  {[a |-> "", b |-> "", c |-> ""], [a |-> "x", b |-> "y", c |-> "x"],
   [a |-> "x", b |-> "x", c |-> ""]}
EnergyInputs == {[a |-> "", b |-> "", c |-> ""], [a |-> "low", b |-> "high", c |-> ""]}
LastPlayedInputs == {[a |-> 0, b |-> 0, c |-> 0], [a |-> 0, b |-> 3, c |-> 1]}
CadenceInputs == {<<100, 200>>, <<100>>, <<120, 150, 120, 180>>}
EnergySliderInputs == {50, 100}

AutoDJTuples ==
  {[has_browse_path |-> d.has_browse_path, listdir |-> d.listdir, playlist |-> pl,
    track_data |-> td, bpm_cadence |-> cadence, autodj_energy |-> slider, now |-> 4,
    metadata |-> [p \in known |->
                    [autodj_exclude |-> IF p \in exclude THEN 1 ELSE 0, age |-> age[p],
                     style |-> "", energy |-> energy[p], bpm |-> bpm[p],
                     last_played |-> last_played[p]]]] :
     d \in BrowseInputs, pl \in PlaylistInputs, td \in TrackDataInputs, known \in KnownInputs,
     exclude \in ExcludeInputs, bpm \in BpmInputs, age \in AgeInputs, energy \in EnergyInputs,
     last_played \in LastPlayedInputs, cadence \in CadenceInputs, slider \in EnergySliderInputs}

(* History.update copies the rows of track_data from the metadata dictionary, *)
(* so what is in the history has an entry; a path of the stored playlist may  *)
(* have none.                                                                 *)
AutoDJInputs ==
  {a \in AutoDJTuples : SeqSet(a.track_data) \subseteq DOMAIN a.metadata}

InitAutoDJ ==
  /\ directory = {}
  /\ playlist = <<>>
  /\ NothingPlays
  /\ args \in AutoDJInputs
  /\ result = <<>>

CallKeeps == UNCHANGED <<ctlvars, engvars, loopvars, bgvars, metavars, args>>

(* AutoDJ().suggested_track() *)
CallSuggestedTrack ==
  /\ result = <<>>
  /\ result' = <<[call |-> "suggested_track"] @@ SuggestedTrackOf(args)>>
  /\ CallKeeps

(* the same call once more, in the state the first call left *)
CallSuggestedTrackAgain ==
  /\ Len(result) = 1
  /\ result[1].call = "suggested_track"
  /\ result' = Append(result, [call |-> "suggested_track"]
                                @@ SuggestedTrackOf([args EXCEPT !.metadata = result[1].metadata]))
  /\ CallKeeps

(* Playlist.update() *)
CallUpdate ==
  /\ result = <<>>
  /\ result' = <<[call |-> "update"] @@ UpdateOf(args)>>
  /\ CallKeeps

(* suggested_track() up to line 100 *)
CallToCadence ==
  /\ result = <<>>
  /\ args.has_browse_path
  /\ Candidates(args) # {}
  /\ result' = <<[call |-> "cadence"] @@ CadenceOf(args)>>
  /\ CallKeeps

NextAutoDJ ==
  \/ CallSuggestedTrack
  \/ CallToCadence
  \/ CallSuggestedTrackAgain
  \/ CallUpdate

SpecAutoDJ == InitAutoDJ /\ [][NextAutoDJ]_vars

-----------------------------------------------------------------------------
(* Sound: an audio segment (sound.py).  Times are counted in ticks: a sample  *)
(* lasts SamplePeriod ticks (frame_rate is 1 / SamplePeriod), the 10 ms slice *)
(* of detect_silence lasts SliceSize ticks, i.e. two samples and a half, as   *)
(* with a frame rate that is no multiple of 100 Hz.  Arithmetic on times is   *)
(* exact.  Samples are SampleWidth-bit signed integers.                       *)
SamplePeriod == 4
SliceSize == 10
Second == 100 * SliceSize
SampleWidth == 16
SampleMin == -(2 ^ (SampleWidth - 1))
SampleMax == 2 ^ (SampleWidth - 1) - 1
ThresholdValue == 20
VolumeUnit == 10

Min2(x, y) == IF x < y THEN x ELSE y
Max2(x, y) == IF x > y THEN x ELSE y

(* two's complement wrap-around of numpy integer arithmetic *)
Wrap(x) == ((x - SampleMin) % (2 ^ SampleWidth)) + SampleMin
Saturate(x) == Max2(SampleMin, Min2(SampleMax, x))

(* round(num / den) of Python 3: to the nearest integer, halves to the even one *)
RoundHalfEven(num, den) ==
  LET q == num \div den
      r == num % den
  IN IF 2 * r < den THEN q
     ELSE IF 2 * r > den THEN q + 1
     ELSE IF q % 2 = 0 THEN q ELSE q + 1

(* slice(start, stop) with None for a bound that is not given, and a number *)
SliceOf(start, stop) ==
  [is_slice |-> TRUE, has_start |-> TRUE, start |-> start, has_stop |-> TRUE, stop |-> stop]
SliceFrom(start) ==
  [is_slice |-> TRUE, has_start |-> TRUE, start |-> start, has_stop |-> FALSE, stop |-> 0]
SliceTo(stop) ==
  [is_slice |-> TRUE, has_start |-> FALSE, start |-> 0, has_stop |-> TRUE, stop |-> stop]
SliceAll ==
  [is_slice |-> TRUE, has_start |-> FALSE, start |-> 0, has_stop |-> FALSE, stop |-> 0]
IndexOf(t) ==
  [is_slice |-> FALSE, has_start |-> TRUE, start |-> t, has_stop |-> FALSE, stop |-> 0]

(* 'if index.start:' -- None and 0 are both false *)
Truthy(has, v) == has /\ v # 0

(* Sound.duration *)
Duration(sound) == Len(sound.channels[1]) * SamplePeriod

FromEnd(t, duration) == IF t < 0 THEN t + duration ELSE t
ClampTime(t, duration) == Max2(0, Min2(duration, t))

(* Sound.__getitem__ *)
GetItem(sound, index) ==
  LET duration == Duration(sound)
      start0 == IF index.is_slice
                THEN IF Truthy(index.has_start, index.start) THEN index.start ELSE 0
                ELSE index.start
      end0 == IF index.is_slice
              THEN IF Truthy(index.has_stop, index.stop) THEN index.stop ELSE duration
              ELSE index.start + Second
      start == RoundHalfEven(ClampTime(FromEnd(start0, duration), duration), SamplePeriod)
      end == RoundHalfEven(ClampTime(FromEnd(end0, duration), duration), SamplePeriod)
  IN [channels |-> [c \in DOMAIN sound.channels |-> SubSeq(sound.channels[c], start + 1, end)]]

(* numpy.square(channel).sum(): the squares have the type of the samples *)
RECURSIVE SumSquares(_, _)
SumSquares(channel, i) ==
  IF i > Len(channel) THEN 0
  ELSE Wrap(channel[i] * channel[i]) + SumSquares(channel, i + 1)

RECURSIVE SumChannels(_, _)
SumChannels(channels, c) ==
  IF c > Len(channels) THEN [sum_squares |-> 0, num_samples |-> 0]
  ELSE LET rest == SumChannels(channels, c + 1)
       IN [sum_squares |-> SumSquares(channels[c], 1) + rest.sum_squares,
           num_samples |-> Len(channels[c]) + rest.num_samples]

Isqrt(x) == CHOOSE r \in 0..(2 ^ (SampleWidth \div 2)) : r * r <= x /\ x < (r + 1) * (r + 1)

(* Sound.rms: int(math.sqrt(sum_squares / num_samples)); 0 / 0 is nan and    *)
(* int(nan) raises, math.sqrt of a negative number raises                     *)
Rms(sound) ==
  LET t == SumChannels(sound.channels, 1)
  IN IF t.num_samples = 0 \/ t.sum_squares < 0 THEN [raised |-> "ValueError", value |-> 0]
     ELSE [raised |-> "", value |-> Isqrt(t.sum_squares \div t.num_samples)]

(* Sound.detect_silence: the forward scan *)
RECURSIVE ForwardScan(_, _)
ForwardScan(sound, start_trim) ==
  IF start_trim < Duration(sound)
  THEN LET rms == Rms(GetItem(sound, SliceOf(start_trim, start_trim + SliceSize)))
       IN IF rms.raised # "" THEN [raised |-> rms.raised, trim |-> start_trim]
          ELSE IF rms.value > ThresholdValue THEN [raised |-> "", trim |-> start_trim]
          ELSE ForwardScan(sound, start_trim + SliceSize)
  ELSE [raised |-> "", trim |-> start_trim]

(* Sound.detect_silence: the backward scan *)
RECURSIVE BackwardScan(_, _)
BackwardScan(sound, end_trim) ==
  IF end_trim > 0
  THEN LET rms == Rms(GetItem(sound, SliceOf(end_trim, end_trim + SliceSize)))
       IN IF rms.raised # "" THEN [raised |-> rms.raised, trim |-> end_trim]
          ELSE IF rms.value > ThresholdValue THEN [raised |-> "", trim |-> end_trim]
          ELSE BackwardScan(sound, end_trim - SliceSize)
  ELSE [raised |-> "", trim |-> end_trim]

(* Sound.detect_silence *)
DetectSilenceScan(sound) ==
  LET forward == ForwardScan(sound, 0)
  IN IF forward.raised # ""
     THEN [raised |-> forward.raised, start_trim |-> forward.trim, end_trim |-> 0]
     ELSE LET backward == BackwardScan(sound, Duration(sound) - SliceSize)
          IN [raised |-> backward.raised, start_trim |-> forward.trim,
              end_trim |-> backward.trim]

(* float to integer: towards zero *)
TruncDiv(x, d) == IF x >= 0 THEN x \div d ELSE -((-x) \div d)

(* astype of a float outside the range of the integer type is undefined in   *)
(* C: a build narrows a wider integer (wrap-around) or saturates             *)
CastBehaviours == {"wrap", "saturate"}
Cast(x, cast) ==
  IF SampleMin <= x /\ x <= SampleMax THEN x
  ELSE IF cast = "wrap" THEN Wrap(x) ELSE Saturate(x)

(* Sound.__mul__, volume in units of 1 / VolumeUnit *)
Mul(sound, volume, cast) ==
  [channels |-> [c \in DOMAIN sound.channels |->
                   [i \in DOMAIN sound.channels[c] |->
                      Cast(TruncDiv(sound.channels[c][i] * volume, VolumeUnit), cast)]]]

(* The buffers, indexes and factors the functions are called with. *)
ChannelInputs ==
  {<<>>, <<0>>, <<0, 0, 0>>, <<0, 0, 0, 0, 0>>, <<0, 0, 0, 0, 0, 0, 0, 0>>,
   <<0, 0, 0, 100, 100, 0, 0, 0>>, <<100, 0, 0, 0, 0, 3>>, <<0, 5, -5, 0, 20000>>,
   <<-32768, 32767, 200, 256, -1, 1>>, <<0, 0, 0, 0, 0, 0, 30, -30, 0, 0, 0, 0, 0>>}
SoundInputs ==
  {[channels |-> <<ch>>] : ch \in ChannelInputs}
    \cup {[channels |-> <<ch, ch>>] : ch \in {<<0, 0, 0>>, <<0, 100, -100, 0, 0>>}}
BoundInputs == {-30, -6, -1, 0, 3, 6, 13, 50}
IndexInputs ==
  {SliceOf(a, b) : a \in BoundInputs, b \in BoundInputs}
    \cup {SliceFrom(a) : a \in BoundInputs} \cup {SliceTo(b) : b \in BoundInputs}
    \cup {SliceAll} \cup {IndexOf(t) : t \in {-6, 0, 8}}
VolumeInputs == {0, 5, 10, 15, 20}

InitSound ==
  /\ directory = {}
  /\ playlist = <<>>
  /\ NothingPlays
  /\ args \in [sound : SoundInputs, index : IndexInputs, volume : VolumeInputs]
  /\ result = <<>>

(* sound[index] *)
CallGetItem ==
  /\ result = <<>>
  /\ result' = <<[call |-> "getitem", sound |-> GetItem(args.sound, args.index)]>>
  /\ CallKeeps

(* sound.rms() *)
CallRms ==
  /\ result = <<>>
  /\ result' = <<[call |-> "rms"] @@ Rms(args.sound)>>
  /\ CallKeeps

(* sound.detect_silence() *)
CallDetectSilence ==
  /\ result = <<>>
  /\ result' = <<[call |-> "detect_silence"] @@ DetectSilenceScan(args.sound)>>
  /\ CallKeeps

(* sound * volume *)
CallMul ==
  /\ result = <<>>
  /\ \E cast \in CastBehaviours :
       result' = <<[call |-> "mul", sound |-> Mul(args.sound, args.volume, cast)]>>
  /\ CallKeeps

NextSound ==
  \/ CallGetItem
  \/ CallRms
  \/ CallDetectSilence
  \/ CallMul

SpecSound == InitSound /\ [][NextSound]_vars

----------------------------------------------------------------------------
(* SpecEnvelope: the waypoints of a track, from their serialised form to the *)
(* volume events.  A string is a sequence of characters; the numbers in it   *)
(* are written in the units of the model (25 ms, tenths of the full level).  *)
DigitChars == <<"0", "1", "2", "3", "4", "5", "6", "7", "8", "9">>
DigitValue(c) == (CHOOSE i \in 1..Len(DigitChars) : DigitChars[i] = c) - 1

(* str.split(sep) *)
RECURSIVE Split(_, _)
Split(s, sep) ==
  IF \E i \in 1..Len(s) : s[i] = sep
    THEN LET i == CHOOSE k \in 1..Len(s) : s[k] = sep /\ \A j \in 1..(k - 1) : s[j] # sep
         IN <<SubSeq(s, 1, i - 1)>> \o Split(SubSeq(s, i + 1, Len(s)), sep)
    ELSE <<s>>

(* float(s) of a string of digits; anything else raises ValueError *)
RECURSIVE DigitsValue(_)
DigitsValue(s) ==
  IF s = <<>> THEN 0
  ELSE DigitsValue(SubSeq(s, 1, Len(s) - 1)) * 10 + DigitValue(s[Len(s)])
ParseFloat(s) ==
  IF s = <<>> \/ \E i \in 1..Len(s) : \A k \in 1..Len(DigitChars) : DigitChars[k] # s[i]
    THEN [raised |-> "ValueError", value |-> 0]
    ELSE [raised |-> "", value |-> DigitsValue(s)]

(* WaypointsTimeline.parse_waypoints: the loop over the parts *)
RECURSIVE ParseList(_, _)
ParseList(waypoints_list, i) ==
  IF i > Len(waypoints_list) THEN <<>>
  ELSE LET waypoint_parts == Split(waypoints_list[i], ";")
           rest == ParseList(waypoints_list, i + 1)
       IN IF Len(waypoint_parts) # 2 THEN rest
          ELSE LET timestamp == ParseFloat(waypoint_parts[1])
                   level == ParseFloat(waypoint_parts[2])
               IN IF timestamp.raised # "" \/ level.raised # "" THEN rest
                  ELSE <<[t |-> timestamp.value, l |-> level.value]>> \o rest

(* WaypointsTimeline.parse_waypoints *)
ParseWaypoints(waypoints_serialised) ==
  IF waypoints_serialised = <<>> THEN <<>>
  ELSE ParseList(Split(waypoints_serialised, "|"), 1)

(* The strings, positions and trimmed durations recalculate is called with. *)
WaypointStringInputs ==
  {<<>>,
   <<"4", ";", "2">>,
   <<"4", ";", "1", "|", "1", "0", ";", "7">>,
   <<"2", ";", "3", "|", "6", ";", "3", "|", "1", "0", ";", "7">>,
   <<"0", ";", "5", "|", "4", ";", "1">>,
   <<"2", ";", "8", "|", "6", ";", "8">>,
   <<"x", ";", "1", "|", "4", ";", "2", "|", "8", ";", "6">>,
   <<"4", ";", "2", ";", "3">>,
   <<"|">>}
PositionInputs == {0, 2, 5}
DurationInputs == {8, 12}

InitEnvelope ==
  /\ directory = {}
  /\ playlist = <<>>
  /\ NothingPlays
  /\ args \in [waypoints_serialised : WaypointStringInputs,
               current_position : PositionInputs, duration : DurationInputs]
  /\ result = <<>>

(* WaypointsTimeline.parse_waypoints(waypoints_serialised) *)
CallParseWaypoints ==
  /\ result = <<>>
  /\ result' = <<[call |-> "parse_waypoints",
                  waypoints |-> ParseWaypoints(args.waypoints_serialised)]>>
  /\ CallKeeps

(* recalculate_volume_waypoints(current_position) of a MusicControl that has *)
(* no volume event yet: lines 76-110                                         *)
CallRecalculate ==
  /\ result = <<>>
  /\ result' = <<[call |-> "recalculate",
                  waypoints |-> ParseWaypoints(args.waypoints_serialised),
                  volume_change_events |->
                    VolumeEvents(ParseWaypoints(args.waypoints_serialised),
                                 args.current_position, args.duration, "a", 1)]>>
  /\ CallKeeps

NextEnvelope ==
  \/ CallParseWaypoints
  \/ CallRecalculate

SpecEnvelope == InitEnvelope /\ [][NextEnvelope]_vars

(***************************************************************************)
(* WaypointsTimeline.add_transition (waypoints_timeline.py:247-304) on the *)
(* list self.waypoints.  A waypoint is [time, level]; times are whole      *)
(* seconds, levels are fractions [n, d] in lowest terms, so that the       *)
(* comparisons of levels at lines 269, 280 and 300 compare the values the  *)
(* code computes.  Indices are those of Python, from 0.                    *)
(***************************************************************************)
MaxTransitions == 2

RECURSIVE Gcd(_, _)
Gcd(x, y) == IF y = 0 THEN x ELSE Gcd(y, x % y)

Frac(n, d) ==
  LET g == Gcd(IF n < 0 THEN -n ELSE n, d)
  IN  [n |-> n \div g, d |-> d \div g]

HalfLevel == Frac(1, 2)

(* self.waypoints[i], a negative i counting from the end *)
Waypoint(waypoints, i) ==
  IF i < 0 THEN waypoints[Len(waypoints) + i + 1] ELSE waypoints[i + 1]

(* lines 258-262: the first waypoint later than time_start, else len *)
PosStart(waypoints, time_start) ==
  LET later == {i \in 0..(Len(waypoints) - 1) : Waypoint(waypoints, i).time > time_start}
  IN  IF later = {} THEN Len(waypoints)
      ELSE CHOOSE i \in later : \A j \in later : i <= j

(* lines 265-272 *)
StartsWithin(waypoints, pos_start) ==
  /\ pos_start # 0
  /\ pos_start # Len(waypoints)
  /\ Waypoint(waypoints, pos_start - 1).level # Waypoint(waypoints, pos_start).level

(* lines 275-278: the loop variable after the loop: the first waypoint from  *)
(* pos_start later than time_end, the last index if the loop runs out, and  *)
(* pos_start if the range is empty                                          *)
PosEndLoop(waypoints, pos_start, time_end) ==
  LET later == {i \in pos_start..(Len(waypoints) - 1) : Waypoint(waypoints, i).time > time_end}
  IN  IF later # {} THEN CHOOSE i \in later : \A j \in later : i <= j
      ELSE IF pos_start < Len(waypoints) THEN Len(waypoints) - 1
      ELSE pos_start

(* lines 275-281 *)
PosEnd(waypoints, pos_start, time_end) ==
  LET pos_end == PosEndLoop(waypoints, pos_start, time_end)
  IN  IF /\ pos_end # 0
         /\ pos_end # Len(waypoints)
         /\ Waypoint(waypoints, pos_end - 1).level # Waypoint(waypoints, pos_end).level
      THEN pos_end + 1
      ELSE pos_end

(* lines 290-294: level_before + ratio * (level_after - level_before) *)
Interpolate(before, after, time_start) ==
  LET span == after.time - before.time
      gone == time_start - before.time
      lb == before.level
      la == after.level
  IN  Frac(lb.n * la.d * span + gone * (la.n * lb.d - lb.n * la.d),
           lb.d * la.d * span)

(* line 292 divides by the distance of the two waypoints *)
DivisionByZero(waypoints, pos_start) ==
  /\ StartsWithin(waypoints, pos_start)
  /\ Waypoint(waypoints, pos_start).time = Waypoint(waypoints, pos_start - 1).time

(* lines 285-296 *)
LevelStart(waypoints, pos_start, time_start) ==
  IF pos_start = 0
  THEN IF Len(waypoints) = 0 THEN HalfLevel ELSE Waypoint(waypoints, 0).level
  ELSE IF StartsWithin(waypoints, pos_start)
  THEN Interpolate(Waypoint(waypoints, pos_start - 1), Waypoint(waypoints, pos_start),
                   time_start)
  ELSE Waypoint(waypoints, pos_start - 1).level

(* lines 299-300 *)
AdjustNext(waypoints, pos_end, level_end) ==
  IF /\ pos_end < Len(waypoints) - 1
     /\ Waypoint(waypoints, pos_end - 1).level = Waypoint(waypoints, pos_end).level
  THEN [waypoints EXCEPT ![pos_end + 1] = [time |-> @.time, level |-> level_end]]
  ELSE waypoints

(* lines 258-304: self.waypoints after the call, and whether it raised *)
AddTransition(waypoints, time_start, time_end, level_end) ==
  LET pos_start == PosStart(waypoints, time_start)
      pos_end == PosEnd(waypoints, pos_start, time_end)
      adjusted == AdjustNext(waypoints, pos_end, level_end)
  IN  IF DivisionByZero(waypoints, pos_start)
      THEN [raised |-> "ZeroDivisionError", waypoints |-> waypoints]
      ELSE [raised |-> "",
            waypoints |->
              SubSeq(adjusted, 1, pos_start)
              \o <<[time |-> time_start,
                    level |-> LevelStart(waypoints, pos_start, time_start)],
                   [time |-> time_end, level |-> level_end]>>
              \o SubSeq(adjusted, pos_end + 1, Len(adjusted))]

TransitionTimes == 0..5
LevelInputs == {Frac(1, 5), Frac(1, 2), Frac(4, 5)}

(* lists as parse_waypoints returns them for a stored field, ascending *)
WaypointListInputs ==
  { <<>>,
    <<[time |-> 2, level |-> Frac(1, 2)]>>,
    <<[time |-> 1, level |-> Frac(1, 5)], [time |-> 3, level |-> Frac(4, 5)]>>,
    <<[time |-> 1, level |-> Frac(1, 2)], [time |-> 3, level |-> Frac(1, 2)],
      [time |-> 4, level |-> Frac(4, 5)]>> }

InitTransition ==
  /\ directory = {}
  /\ playlist = <<>>
  /\ NothingPlays
  /\ args \in [waypoints : WaypointListInputs]
  /\ result = <<>>

(* end_transition (line 343) calls add_transition with the time of          *)
(* start_transition and the later time of end_transition; the list is the   *)
(* one the call before left.  Lines 307-309 store and draw the list and     *)
(* leave it as it is.                                                       *)
CallAddTransition ==
  \E time_start \in TransitionTimes, time_end \in TransitionTimes, level_end \in LevelInputs :
    LET before == IF result = <<>> THEN args.waypoints ELSE result[1].waypoints
        calls == IF result = <<>> THEN 0 ELSE result[1].calls
    IN  /\ time_start < time_end
        /\ calls < MaxTransitions
        /\ result' = <<[call |-> "add_transition", before |-> before,
                        time_start |-> time_start, time_end |-> time_end,
                        level_end |-> level_end, calls |-> calls + 1]
                       @@ AddTransition(before, time_start, time_end, level_end)>>
        /\ CallKeeps

NextTransition == CallAddTransition

SpecTransition == InitTransition /\ [][NextTransition]_vars

----------------------------------------------------------------------------
(* Properties *)
Sig(name, arg, playing) == [sig |-> name, arg |-> arg, playing |-> playing]
Emitted(e, sig) == \E i \in 1..Len(e) : e[i] = sig
CountRunning(ts, kind) ==
  Cardinality({i \in 1..Len(ts) : Running(ts[i]) /\ ts[i].kind = kind})
Pending(kind) ==
  CountRunning(events, kind) + CountRunning(volume_change_events, kind)
  + Cardinality({t \in orphans : t.kind = kind})
Owner(t) == [path |-> t.path, gen |-> t.gen]
RampLength == Len(FadeRamp(FadeFirst, Fadeout, 0, "", 0))

(* C1: the playback loop takes its buffer, its cursor and its end position   *)
(* from one and the same track: the chunk it slices has both bounds from the *)
(* cursor of the track whose buffer it slices, and the end position it       *)
(* compares the cursor with is that track's.                                 *)
C1_TripleOfOneTrack ==
  [][/\ LoopSlice => /\ chunk'.lo.gen = chunk'.src.gen
                     /\ chunk'.hi.gen = chunk'.src.gen
     /\ LoopCompare => end_position.gen = chunk.src.gen]_vars

(* C2: the playback loop never terminates. *)
C2_LoopNeverEnds == lpc # "dead"

(* C3: when an end-of-track event fires and the entry after the head of the  *)
(* playlist is a regular track, song_finished is reported for the track that *)
(* ended, the head is removed, the new head is started, and the Player is    *)
(* playing at every signal emitted on the way.                               *)
C3_NaturalAdvance ==
  [][\A h \in Handles :
       (/\ TimerAt(h).kind = "song_ends"
        /\ Len(playlist) >= 2
        /\ playlist[2] \in Tracks
        /\ TimerFires(h))
       => /\ emitted'[1] = Sig("song_finished", TimerAt(h).path, TRUE)
          /\ playlist' = Tail(playlist)
          /\ current_track' = [path |-> playlist[2], gen |-> 1]
          /\ audio_source' = current_track'
          /\ control_track' = current_track'
          /\ Pending("song_ends")' = 1
          /\ \A i \in 1..Len(emitted') : emitted'[i].playing]_vars

C3_Advanced ==
  /\ emitted = <<Sig("song_finished", "a", TRUE), Sig("song_changed", "", TRUE)>>
  /\ current_track = [path |-> "b", gen |-> 1]
  /\ playlist = <<"b">>

(* C4: an event that fires while the track of its scheduler is not the       *)
(* Player's current track changes neither the volume, nor the current track, *)
(* nor the playback engine, nor the playlist.                                *)
C4_StaleEventIsNoOp ==
  [][\A h \in Handles :
       (current_track # Owner(TimerAt(h)) /\ TimerFires(h))
       => UNCHANGED <<main_volume, current_track, audio_source, current_position,
                      end_position, playlist>>]_vars

(* C5: every pending event belongs to the scheduler that is the Player's     *)
(* control_track: once a scheduler is replaced none of its events is left to *)
(* fire.                                                                     *)
C5_OnlyTheSchedulerInPlace ==
  \A t \in AllRunning : control_track # Nil /\ Owner(t) = control_track

(* a track was skipped by an edit of cut_end while events were pending *)
C5_Replaced ==
  /\ emitted = <<Sig("song_changed", "", TRUE)>>
  /\ control_track # Nil
  /\ Pending("song_ends") = 1
  /\ start_time = 0

(* C6: at most one end-of-track event and at most one fade-out sequence (its *)
(* ramp and its terminal event) are pending.                                 *)
C6_OneOfEachPending ==
  /\ Pending("song_ends") <= 1
  /\ Pending("fadeout_done") <= 1
  /\ Pending("fade") <= RampLength

(* the end-of-track event was replaced while the track played *)
C6_EndReplaced ==
  /\ current_track # Nil
  /\ start_time > 0
  /\ Len(events) = 1
  /\ events[1].kind = "song_ends"
  /\ events[1].left = events[1].interval
  /\ Pending("song_ends") = 1

(* C7: set_playing(true) while no track plays and a regular track heads the  *)
(* playlist: the head is the current track, the volume is the default, the   *)
(* engine has the decoded head with cursor cut_start and end position        *)
(* cut_end, a new scheduler for the head has all its events running, and     *)
(* song_changed was emitted.                                                 *)
C7_StartFromStopped ==
  [][(/\ current_track = Nil
      /\ playlist # <<>>
      /\ playlist[1] \in Tracks
      /\ UserSetPlaying(TRUE))
     => LET head == playlist[1] IN
        /\ current_track' = [path |-> head, gen |-> 1]
        /\ playlist' = playlist
        /\ main_volume' = DefaultVolume
        /\ audio_source' = current_track'
        /\ current_position' = [v |-> cut_start'[head], gen |-> 1]
        /\ end_position' = [v |-> cut_end'[head], gen |-> 1]
        /\ cut_start'[head] >= 0 /\ cut_end'[head] >= 0
        /\ control_track' = [path |-> head, gen |-> 1]
        /\ control_track # Nil => control_track.gen = 1
        /\ Len(events') = 1
        /\ events'[1] = TimerStart(Timer("song_ends", cut_end'[head] - cut_start'[head] + Silence,
                                         0, head, 1))
        /\ \A i \in 1..Len(volume_change_events') :
              /\ Owner(volume_change_events'[i]) = control_track'
              /\ volume_change_events'[i].left = volume_change_events'[i].interval
        /\ orphans' = {}
        /\ Emitted(emitted', Sig("song_changed", "", TRUE))]_vars

C7_Started ==
  /\ emitted = <<Sig("song_changed", "", TRUE), Sig("is_playing_changed", "", TRUE)>>
  /\ current_track = [path |-> "b", gen |-> 1]
  /\ current_position.v = 1
  /\ end_position.v = 4

(* C8: set_playing(true) while no track plays and the playlist is empty:     *)
(* still no track plays, no scheduler is made, the engine, the playlist and  *)
(* the trim points are as before.                                            *)
C8_StartOnEmptyPlaylist ==
  [][(current_track = Nil /\ playlist = <<>> /\ UserSetPlaying(TRUE))
     => /\ current_track' = Nil
        /\ playlist' = <<>>
        /\ raised' = ""
        /\ UNCHANGED <<control_track, events, volume_change_events, orphans, main_volume,
                       start_time, cut_start, cut_end, audio_source, current_position,
                       end_position>>]_vars

C8_StillStopped ==
  /\ playlist = <<>>
  /\ current_track = Nil
  /\ control_track = Nil
  /\ audio_source = Nil
  /\ emitted = <<Sig("is_playing_changed", "", FALSE), Sig("is_playing_changed", "", FALSE)>>

(* C9: set_playing(false) while a track plays emits song_finished for that   *)
(* track if and only if the time played is more than half of the track's     *)
(* trimmed duration.                                                         *)
C9_FinishedIffOverHalf ==
  [][(current_track # Nil /\ UserSetPlaying(FALSE))
     => LET T == current_track.path IN
        Emitted(emitted', Sig("song_finished", T, TRUE))
          <=> 2 * start_time > cut_end[T] - cut_start[T]]_vars

FullyStopped ==
  /\ main_volume = 0
  /\ current_track = Nil
  /\ control_track = Nil
  /\ AllRunning = {}
  /\ audio_source = Nil
  /\ current_position = NoPos

C11_FadeoutCompletes ==
  /\ (current_track = Nil /\ Pending("fadeout_done") = 1)
        ~> (FullyStopped \/ current_track # Nil)
  /\ [][(control_track = Nil /\ ControlStep /\ Idle') => FullyStopped']_vars

C11_Silent ==
  /\ FullyStopped
  /\ start_time = NoTime
  /\ playlist = <<"a", "b">>

(* C12: when play_next finds ":pause:" at the head of the playlist (on       *)
(* set_playing(true) while no track plays, or when an end-of-track event has *)
(* removed the entry before it), no track is current afterwards, the         *)
(* sentinel and nothing else is gone from the playlist (an emptied playlist  *)
(* may get the suggestion of AutoDJ), the next entry is not started, and no  *)
(* song_finished is emitted for the sentinel.                                *)
PauseDropped(rest) ==
  /\ current_track' = Nil
  /\ raised' = ""
  /\ IF rest # <<>> THEN playlist' = rest
     ELSE playlist' = <<>> \/ \E t \in directory : playlist' = <<t>>
  /\ Pending("song_ends")' = 0
  /\ \A i \in 1..Len(emitted') :
        /\ emitted'[i].sig # "song_changed"
        /\ emitted'[i].sig = "song_finished" => emitted'[i].arg # Pause

C12_PauseStops ==
  [][/\ (/\ current_track = Nil
         /\ playlist # <<>>
         /\ playlist[1] = Pause
         /\ UserSetPlaying(TRUE))
        => PauseDropped(Tail(playlist)) /\ UNCHANGED engvars
     /\ \A h \in Handles :
          (/\ TimerAt(h).kind = "song_ends"
           /\ Len(playlist) >= 2
           /\ playlist[2] = Pause
           /\ TimerFires(h))
          => PauseDropped(Tail(Tail(playlist)))]_vars

C12_Paused ==
  /\ current_track = Nil
  /\ playlist = <<"b">>
  /\ Len(emitted) = 2
  /\ emitted[1] = Sig("is_playing_changed", "", FALSE)
  /\ emitted[2] = Sig("is_playing_changed", "", FALSE)

C12_PausedAfterTrack ==
  /\ current_track = Nil
  /\ Len(emitted) = 2
  /\ emitted[1].sig = "song_finished"
  /\ emitted[2] = Sig("is_playing_changed", "", FALSE)
  /\ Pending("fadeout_done") = 1

(* C13: while track T plays from the head of the playlist and a regular      *)
(* track follows it, set_current_cut_end(c) with c before the cursor of the  *)
(* engine makes the entry that followed T the track that plays.              *)
C13_SkipToFollower ==
  [][\A c \in CutEndInputs :
       (/\ current_track # Nil
        /\ Len(playlist) >= 2
        /\ playlist[1] = current_track.path
        /\ playlist[2] \in Tracks
        /\ cut_end[playlist[1]] # c
        /\ c < current_position.v
        /\ UserSetCurrentCutEnd(c))
       => current_track'.path = playlist[2]]_vars

SetSongEndsCalled(c) ==
  /\ current_track # Nil
  /\ playlist # <<>>
  /\ playlist[1] \in Tracks
  /\ cut_end[playlist[1]] # c
  /\ c >= current_position.v
  /\ events[1].kind = "song_ends"
  /\ UserSetCurrentCutEnd(c)

OnlyTheEndReplaced(delay) ==
  /\ Len(events') = 1
  /\ events'[1].kind = "song_ends"
  /\ events'[1].left = delay
  /\ Pending("song_ends")' = 1
  /\ orphans' = {}
  /\ volume_change_events' = volume_change_events

C16_RecalculateOnlyEnvelope ==
  [][\A p \in RecalculateInputs :
       (control_track # Nil /\ UserRecalculate(p))
       => /\ events' = events
          /\ orphans' = orphans
          /\ volume_change_events' =
                (IF p > 0 THEN StartAll(StopAll(volume_change_events'))
                          ELSE StopAll(volume_change_events'))
          /\ \A i \in 1..Len(volume_change_events') :
                /\ volume_change_events'[i].kind = "volume"
                /\ volume_change_events'[i].interval > 0
                /\ Owner(volume_change_events'[i]) = control_track
          /\ UNCHANGED <<current_track, control_track, playlist, cut_start, cut_end,
                         main_volume, start_time, engvars>>]_vars

(* the volume events of track a were made again in mid-play, and are running *)
C16_Regenerated ==
  /\ current_track = [path |-> "a", gen |-> 1]
  /\ start_time > 0
  /\ cut_start["a"] = 0
  /\ Len(events) = 1
  /\ events[1].kind = "song_ends"
  /\ events[1].left < events[1].interval
  /\ Len(volume_change_events) = 1
  /\ volume_change_events[1].left = volume_change_events[1].interval
  /\ volume_change_events[1].kind = "volume"

(* C17: in a session without cut edits, while a track plays (no stop), its   *)
(* end-of-track event is the only one pending, its delay is cut_end minus    *)
(* cut_start plus the silence, and the time it has run is the time since the *)
(* track was started (as far as that time is counted): it fires that delay   *)
(* after the start, not earlier, and it is not running after it fired.       *)
EndTimerInStep ==
  \A i \in 1..Len(events) :
    (events[i].kind = "song_ends" /\ Running(events[i]))
    => /\ current_track # Nil
       /\ Owner(events[i]) = control_track
       /\ events[i].interval =
            cut_end[events[i].path] - cut_start[events[i].path] + Silence
       /\ IF start_time < MaxElapsed
            THEN events[i].interval - events[i].left = start_time
            ELSE events[i].interval - events[i].left >= MaxElapsed
       /\ Pending("song_ends") = 1

C17_EndAfterDurationAndSilence ==
  [][/\ EndTimerInStep'
     /\ \A h \in Handles :
          (TimerAt(h).kind = "song_ends" /\ RaceTimerFires(h))
          => /\ EndTimerInStep
             /\ TimerAt(h).left = 0
             /\ \A t \in AllRunning' : t.kind = "song_ends" => t.gen # TimerAt(h).gen]_vars

(* the end-of-track event of a fired, b was started in its place *)
C17_Ended ==
  /\ Len(emitted) >= 1
  /\ emitted[1] = Sig("song_finished", "a", TRUE)
  /\ current_track = [path |-> "b", gen |-> 1]
  /\ Idle
  /\ Len(events) = 1
  /\ events[1].left = cut_end["b"] - cut_start["b"] + Silence

(* C18: when the end-of-track event of track T fires while T plays from the  *)
(* head of the playlist, song_finished is emitted for T if and only if more  *)
(* than half of T's trimmed duration has elapsed since T was started; either *)
(* way the head is removed from the playlist and the track that follows it  *)
(* is started.                                                               *)
C18_FinishedOnlyOverHalf ==
  [][\A h \in Handles :
       (/\ TimerAt(h).kind = "song_ends"
        /\ current_track # Nil
        /\ playlist # <<>>
        /\ playlist[1] = current_track.path
        /\ TimerAt(h).path = current_track.path
        /\ start_time # NoTime
        /\ TimerFires(h))
       => LET T == current_track.path IN
          /\ Emitted(emitted', Sig("song_finished", T, TRUE))
               <=> 2 * start_time > cut_end[T] - cut_start[T]
          /\ (Len(playlist) >= 2 /\ playlist[2] \in Tracks)
               => /\ playlist' = Tail(playlist)
                  /\ current_track'.path = playlist[2]]_vars

(* C19: the reported progress is the engine cursor over the untrimmed total  *)
(* duration of the decoded track, and a live change of cut_start, or of      *)
(* cut_end to a position not before the cursor, leaves it unchanged.         *)
ProgressStable ==
  /\ CurrentProgress(St) = <<current_position.v, TotalDuration[current_track.path]>>
  /\ CurrentProgress(St)' = CurrentProgress(St)

C19_ProgressStable ==
  [][/\ \A c \in CutStartInputs : UserSetCurrentCutStart(c) => ProgressStable
     /\ \A c \in CutEndInputs :
          (c >= current_position.v /\ UserSetCurrentCutEnd(c)) => ProgressStable]_vars

(* a plays from 1, its cut_start was moved to 4 and its cut_end to 2 *)
C19_Edited ==
  /\ current_track # Nil
  /\ current_track.path = "a"
  /\ cut_start["a"] = 4
  /\ cut_end["a"] = 2
  /\ current_position.v = 1
  /\ CurrentProgress(St) = <<1, 6>>

(* C20: the worker never starts a task added with allow_during_playback =    *)
(* False while the Player is Playing: such a task, taken from the queue      *)
(* while the Player is Playing, is put back at the tail of the queue behind  *)
(* every task queued at that time and is not executed in that iteration.     *)
C20_DeferredWhilePlaying ==
  [][/\ WorkerRun => (wtask.allow_during_playback \/ ~IsPlaying(St))
     /\ (~wtask.allow_during_playback /\ IsPlaying(St) /\ WorkerTest) => wpc' = "put"
     /\ WorkerPut => /\ tasks' = Append(tasks, wtask)
                     /\ executed' = executed]_vars

(* C21: every modification of the metadata dictionary and every iteration  *)
(* over it happens while the thread holds metadata_lock, so store never      *)
(* iterates the dictionary while another thread writes to it.                *)
C21_MapGuardedByLock ==
  [][/\ store_thread = "items"
          => /\ metadata_lock = "store"
             /\ UNCHANGED <<cut_start, cut_end>>
     /\ (cut_start' # cut_start \/ cut_end' # cut_end) => metadata_lock # "store"]_vars

Fresh(track, queued) ==
  /\ track \in args.listdir
  /\ IsMusicFile(track)
  /\ track \notin SeqSet(queued)

C23_SuggestionNotQueued ==
  \A i \in 1..Len(result) :
     /\ (result[i].call = "suggested_track" /\ result[i].track # "")
          => Fresh(result[i].track, args.playlist)
     /\ result[i].call = "update"
          => /\ \/ result[i].playlist = args.playlist
                \/ /\ Len(result[i].playlist) = Len(args.playlist) + 1
                   /\ SubSeq(result[i].playlist, 1, Len(args.playlist)) = args.playlist
                   /\ Fresh(result[i].playlist[Len(result[i].playlist)], args.playlist)
             /\ IF result[i].suggested_track = ""
                  THEN result[i].paths = result[i].playlist
                  ELSE /\ result[i].paths = Append(result[i].playlist, result[i].suggested_track)
                       /\ Fresh(result[i].suggested_track, result[i].playlist)

(* the update of an empty playlist has added one track and suggests another *)
C23_FilledAndSuggested ==
  /\ Len(result) = 1
  /\ result[1].call = "update"
  /\ args.playlist = <<>>
  /\ Len(result[1].playlist) = 1
  /\ Len(result[1].paths) = 2
  /\ result[1].paths[1] # result[1].paths[2]

(* C24: suggested_track never returns a track whose BPM is unknown (bpm < 0) *)
(* and never a track flagged autodj_exclude, even when such a track would    *)
(* have the highest score among the files that are not in the playlist.      *)
C24_KnownBpmNotExcluded ==
  \A i \in 1..Len(result) :
     (result[i].call = "suggested_track" /\ result[i].track # "")
     => /\ args.metadata[result[i].track].bpm >= 0
        /\ args.metadata[result[i].track].autodj_exclude = 0

(* C25: the rotation chosen is the lowest-index rotation of the cadence that *)
(* minimizes the sum of absolute differences against the trailing history    *)
(* slice (oldest first, unknown BPM replaced by the medium BPM), and the     *)
(* base target BPM is cadence[(slice length + best rotation) mod cadence     *)
(* length].  For cadence [100, 200] and a one-entry history at BPM 195 the   *)
(* rotation starting at 200 is chosen and the target is 100.                 *)
TrailingSlice ==
  LET played == SelectSeq(ReverseSeq(args.playlist) \o args.track_data, LAMBDA p : p # Pause)
      n == IF Len(played) < Len(args.bpm_cadence) THEN Len(played) ELSE Len(args.bpm_cadence)
      known(p) == IF p \in DOMAIN args.metadata THEN args.metadata[p].bpm ELSE FileBpm[p]
  IN [i \in 1..n |-> IF known(played[n + 1 - i]) < 0 THEN MediumBpm ELSE known(played[n + 1 - i])]

RECURSIVE Misfit(_, _)
Misfit(rotation, i) ==
  IF i = 0 THEN 0
  ELSE AbsDiff(args.bpm_cadence[((rotation + i - 1) % Len(args.bpm_cadence)) + 1], TrailingSlice[i])
         + Misfit(rotation, i - 1)

C25_CadenceAligned ==
  \A k \in 1..Len(result) :
     result[k].call = "cadence"
     => LET length == Len(args.bpm_cadence)
            best == result[k].best_rotate
        IN /\ best \in 0..(length - 1)
           /\ \A r \in 0..(length - 1) :
                 /\ Misfit(best, Len(TrailingSlice)) <= Misfit(r, Len(TrailingSlice))
                 /\ r < best => Misfit(best, Len(TrailingSlice)) < Misfit(r, Len(TrailingSlice))
           /\ result[k].bpm_target = args.bpm_cadence[((Len(TrailingSlice) + best) % length) + 1]
           /\ (args.bpm_cadence = <<100, 200>> /\ TrailingSlice = <<195>>)
                => best = 1 /\ result[k].bpm_target = 100

(* cadence [100, 200], one track played, at 195 *)
C25_Example ==
  /\ Len(result) = 1
  /\ result[1].call = "cadence"
  /\ args.bpm_cadence = <<100, 200>>
  /\ TrailingSlice = <<195>>
  /\ result[1].best_rotate = 1
  /\ result[1].bpm_target = 100

(* C26: suggested_track returns a candidate with the maximum score, and     *)
(* when several candidates share the maximum score it returns the one whose  *)
(* path is smallest in sorted path order.                                    *)
PathIndex(path) == CHOOSE i \in 1..Len(SortedFiles) : SortedFiles[i] = path

C26_FirstMaximum ==
  \A k \in 1..Len(result) :
     (result[k].call = "suggested_track" /\ result[k].track # "")
     => LET state == [args EXCEPT !.metadata = IF k = 1 THEN @ ELSE result[1].metadata]
        IN /\ result[k].track \in Candidates(state)
           /\ \A p \in Candidates(state) :
                 /\ RatingOf(state, p) <= RatingOf(state, result[k].track)
                 /\ RatingOf(state, p) = RatingOf(state, result[k].track)
                      => PathIndex(result[k].track) <= PathIndex(p)

(* b is returned: a is rated lower and c is rated the same *)
C26_TieAfterLower ==
  /\ Len(result) = 1
  /\ result[1].call = "suggested_track"
  /\ result[1].track = "b"
  /\ Candidates(args) = {"a", "b", "c"}
  /\ RatingOf(args, "a") < RatingOf(args, "b")
  /\ RatingOf(args, "c") = RatingOf(args, "b")

ClampBound(t, duration) == ClampTime(FromEnd(t, duration), duration)
C28_SliceDuration ==
  (/\ Len(result) = 1 /\ result[1].call = "getitem"
   /\ args.index.is_slice /\ args.index.has_start /\ args.index.has_stop)
    => LET duration == Duration(args.sound)
       IN AbsDiff(Duration(result[1].sound),
                  ClampBound(args.index.stop, duration)
                    - ClampBound(args.index.start, duration)) <= SamplePeriod

(* C29: detect_silence returns a range with start_trim <= end_trim, both     *)
(* within [0, duration], for every buffer, in particular for one in which no *)
(* slice exceeds the threshold.                                              *)
C29_RangeNotInverted ==
  (Len(result) = 1 /\ result[1].call = "detect_silence")
    => /\ result[1].raised = ""
       /\ result[1].start_trim <= result[1].end_trim
       /\ 0 <= result[1].start_trim /\ result[1].start_trim <= Duration(args.sound)
       /\ 0 <= result[1].end_trim /\ result[1].end_trim <= Duration(args.sound)

(* C30: every sample of sound * factor is the sample times the factor,       *)
(* clamped to the range of the sample type; it never wraps.                  *)
C30_GainClamped ==
  (Len(result) = 1 /\ result[1].call = "mul")
    => \A c \in DOMAIN args.sound.channels : \A i \in DOMAIN args.sound.channels[c] :
         result[1].sound.channels[c][i]
           = Saturate(TruncDiv(args.sound.channels[c][i] * args.volume, VolumeUnit))

(* C31: the cursor the control side sets for a new track is the lower bound  *)
(* of the first chunk of that track: when the playback loop advances the     *)
(* cursor or resets it to 0, the cursor still holds the value the loop read  *)
(* for the chunk it sliced, a value of the track the chunk was sliced from.  *)
C31_CursorOfNewTrackKept ==
  [][/\ LoopStoreAdvance => /\ current_position = chunk.p
                             /\ chunk.p = chunk.lo
                             /\ chunk.p.gen = chunk.src.gen
     /\ LoopResetPosition => /\ current_position = chunk.p
                              /\ chunk.p.gen = chunk.src.gen]_vars

(* C32: when the end-of-track event of the track in play fires for the last  *)
(* entry of the playlist and nothing refills the playlist, the handler ends  *)
(* without an exception, current_track and start_time are cleared and        *)
(* is_playing_changed is emitted with the Player stopped.                    *)
C32_LastTrackEndsStopped ==
  [][\A h \in Handles :
       (/\ TimerAt(h).kind = "song_ends"
        /\ current_track # Nil
        /\ Len(playlist) = 1
        /\ TimerFires(h)
        /\ playlist' = <<>>)
       => /\ raised' = ""
          /\ current_track' = Nil
          /\ start_time' = NoTime
          /\ Emitted(emitted', Sig("is_playing_changed", "", FALSE))]_vars

(* C33: while a track plays, Playlist.add, Playlist.remove and              *)
(* Playlist.reorder leave its path at the head of the playlist, and the      *)
(* entry that the end-of-track event of the track in play removes is the     *)
(* entry of that track.                                                      *)
C33_HeadIsTrackInPlay ==
  [][/\ (/\ current_track # Nil
          /\ playlist # <<>>
          /\ playlist[1] = current_track.path
          /\ \/ \E path \in Entries : UserPlaylistAdd(path)
             \/ \E index \in 0..1 : UserPlaylistRemove(index)
             \/ \E path \in Entries, new_index \in 0..2 : UserPlaylistReorder(path, new_index))
         => (playlist' # <<>> /\ playlist'[1] = current_track.path)
     /\ \A h \in Handles :
          (/\ TimerAt(h).kind = "song_ends"
           /\ current_track # Nil
           /\ TimerAt(h).path = current_track.path
           /\ TimerFires(h))
          => (playlist # <<>> /\ playlist[1] = current_track.path)]_vars

EnvelopeAt(wps, t) ==
  IF t <= wps[1].t THEN wps[1].l
  ELSE IF t >= wps[Len(wps)].t THEN wps[Len(wps)].l
  ELSE LET i == CHOOSE k \in 1..(Len(wps) - 1) : wps[k].t <= t /\ t < wps[k + 1].t
       IN wps[i].l + ((t - wps[i].t) * (wps[i + 1].l - wps[i].l)) \div (wps[i + 1].t - wps[i].t)

(* the sample times of the generator, and the volume that the events that    *)
(* have fired by a sample time leave, from the default volume of play_next   *)
SampleTimes ==
  {t \in (args.current_position + EnvFirst)..(args.duration - 1) :
     (t - args.current_position - EnvFirst) % EnvStep = 0}
VolumeInEffect(evts, elapsed) ==
  LET fired == {i \in 1..Len(evts) : evts[i].interval <= elapsed}
  IN IF fired = {} THEN DefaultVolume
     ELSE evts[CHOOSE i \in fired : \A j \in fired : j <= i].v

(* C35: for a track with at least one waypoint, the volume in effect at a    *)
(* sample time is the level of the first waypoint before it, the level of    *)
(* the last waypoint after it, and the linear interpolation in between.      *)
C35_VolumeFollowsEnvelope ==
  (/\ Len(result) = 1 /\ result[1].call = "recalculate"
   /\ args.current_position = 0
   /\ Len(result[1].waypoints) >= 1)
    => \A t \in SampleTimes :
         VolumeInEffect(result[1].volume_change_events, t) = EnvelopeAt(result[1].waypoints, t)

(* C36: there is a volume event at a sample time exactly when the sampled    *)
(* value there is the first of a run of equal values, the first run          *)
(* included, and the event sets that value.                                  *)
C36_EventAtEveryRunStart ==
  (/\ Len(result) = 1 /\ result[1].call = "recalculate"
   /\ Len(result[1].waypoints) >= 1)
    => \A t \in SampleTimes :
         LET wps == result[1].waypoints
             evts == result[1].volume_change_events
             first == \/ t - EnvStep \notin SampleTimes
                      \/ EnvelopeAt(wps, t) # EnvelopeAt(wps, t - EnvStep)
             here == {i \in 1..Len(evts) : evts[i].interval = t - args.current_position}
         IN /\ first <=> here # {}
            /\ \A i \in here : evts[i].v = EnvelopeAt(wps, t)

(* C37: the empty string parses to the empty list, and recalculate makes no  *)
(* volume event for it, whatever the current position.                       *)
C37_EmptyStringNoEvents ==
  (Len(result) = 1 /\ args.waypoints_serialised = <<>>)
    => /\ result[1].waypoints = <<>>
       /\ result[1].call = "recalculate" => result[1].volume_change_events = <<>>

(* recalculate was called at position 5 for the empty string *)
C37_EmptyRecalculated ==
  /\ Len(result) = 1
  /\ result[1].call = "recalculate"
  /\ args.waypoints_serialised = <<>>
  /\ args.current_position = 5
  /\ result[1].volume_change_events = <<>>

(* strictly ascending by timestamp *)
Ascending(waypoints) ==
  \A i \in 1..(Len(waypoints) - 1) : waypoints[i].time < waypoints[i + 1].time

(* C38: add_transition with time_start < time_end on a list that is strictly *)
(* ascending by timestamp leaves a list that is strictly ascending by        *)
(* timestamp, without a timestamp twice.                                     *)
C38_TransitionKeepsAscending ==
  (/\ result # <<>>
   /\ result[1].call = "add_transition"
   /\ Ascending(result[1].before))
  => /\ result[1].raised = ""
     /\ Ascending(result[1].waypoints)

NoDuplicates(l) == \A i, j \in 1..Len(l) : l[i] = l[j] => i = j

(* C39: the playlist never holds a path or the pause entry twice; add of an  *)
(* entry that is in the playlist, remove of an index out of range and        *)
(* reorder of a path that is not in the playlist leave the playlist as it    *)
(* is, and reorder keeps the length of the playlist.                         *)
C39_PlaylistWithoutDuplicates ==
  /\ []NoDuplicates(playlist)
  /\ [][/\ \A path \in Entries :
            (path \in SeqSet(playlist) /\ playlist' # playlist) => ~UserPlaylistAdd(path)
        /\ \A index \in 0..1 :
            (index >= Len(playlist) /\ playlist' # playlist) => ~UserPlaylistRemove(index)
        /\ \A path \in Entries, new_index \in 0..2 :
            (\/ Len(playlist') # Len(playlist)
             \/ path \notin SeqSet(playlist) /\ playlist' # playlist)
            => ~UserPlaylistReorder(path, new_index)]_vars

(* all three entries were added, one was moved, and a track plays *)
C39_FullPlaylist ==
  /\ Len(playlist) = 3
  /\ playlist[1] = "b"
  /\ playlist[3] = "a"
  /\ current_track # Nil

(* the tasks of the session that may run while music plays *)
AllowedTasks ==
  {tasks[i].task : i \in {j \in 1..Len(tasks) : tasks[j].allow_during_playback}}
    \cup (IF wtask.allow_during_playback THEN {wtask.task} \ {NoTask.task} ELSE {})

(* C40: no task is called twice; a task that may run during playback is     *)
(* called at last, whatever is queued before it; and when the Player stays  *)
(* stopped from some time on, every task that was added is called at last.  *)
C40_EveryTaskRunsOnce ==
  /\ [](NoDuplicates(executed))
  /\ \A t \in 1..MaxTasks : (t \in AllowedTasks) ~> (t \in SeqSet(executed))
  /\ <>[](current_track = Nil)
       => \A t \in 1..MaxTasks : (t \in TasksAdded) ~> (t \in SeqSet(executed))

====
